---- MODULE Spec2Model ----
(***************************************************************************)
(* Reggie-Next level editor: object tile-grid composition and              *)
(* randomisation (ObjectItem.randomise / updateObjCache /                  *)
(* updateObjCacheWH), the interactive multi-object resize protocol         *)
(* (ObjectItem.mousePressEvent / mouseMoveEvent / mouseReleaseEvent),      *)
(* position snapping with undo coalescing (itemChange) and the layers of   *)
(* the area (CreateObject, clone, paste, layer change, delete).            *)
(*                                                                         *)
(* Lengths: object origins and sizes are in 24-pixel cells, scene positions *)
(* of objects in pixels, scene positions of entrances and sprites in 1/2    *)
(* pixel, their objx and objy in 1/16 of a cell, pointer positions in       *)
(* 1/100 pixel.                                                             *)
(***************************************************************************)
EXTENDS Integers, Sequences, FiniteSets, TLC

VARIABLES
    globals_,    \* tileset metadata: TilesetFilesLoaded, TilesetInfo, ObjectDefinitions
    objs,        \* the ObjectItems of the level, by identity
    choices,     \* the random choices of the last randomisation
    lastOp,      \* the operation that led to the current state
    items,       \* the entrances and sprites of the level, by identity
    pointer,     \* the mouse and the Alt key: button state, grabbing item, scene position
    mainWindow,  \* ReggieWindow: CurrentSelection, undoStack, Dirty, SelectionUpdateFlag
    Area         \* globals_.Area: layers, the three sequences of objects

vars == <<globals_, objs, items, choices, lastOp, pointer, mainWindow, Area>>

None == "None"

(***************************************************************************)
(* Bounds of the model.                                                    *)
(***************************************************************************)
MaxW == 3
MaxH == 2
\* a pointer move ends MaxDrag cells left or right of, above or below the
\* place of the press, or level with it
MaxDrag == 1
\* number of presses and moves of the mouse, and of placements, pastes,
\* layer changes and deletions, followed in one behaviour
MaxEvents == 4
\* number of objects in the level
MaxObjs == 3
\* the number of shifts of the selection
MaxShifts == 2
\* largest height of the grids of vertical pairs
MaxRows == 3

(***************************************************************************)
(* Python helpers.                                                         *)
(***************************************************************************)
\* int(n / d) for d > 0: truncation toward zero
Trunc(n, d) == IF n >= 0 THEN n \div d ELSE -((-n) \div d)

\* v & 0xFF
LowByte(v) == v % 256

\* v & 0b01, v & 0b10 as truth values
Bit0(v) == v % 2 = 1
Bit1(v) == (v \div 2) % 2 = 1

\* list.remove(v): removes the first occurrence; ValueError is swallowed
RECURSIVE ListRemove(_, _)
ListRemove(s, v) ==
    IF s = <<>> THEN <<>>
    ELSE IF Head(s) = v THEN Tail(s)
    ELSE <<Head(s)>> \o ListRemove(Tail(s), v)

Elems(s) == {s[i] : i \in 1..Len(s)}

\* a Python list built from an index -> value mapping
AsList(f) == <<>> \o f

(***************************************************************************)
(* Tileset metadata (globals_.TilesetFilesLoaded, TilesetInfo,             *)
(* ObjectDefinitions).                                                     *)
(***************************************************************************)
Tilesets == {0, 1}
ObjTypes == 0..7

\* file names of the tilesets when loaded; only the second one has an entry
\* in the randomisation table
TilesetFile(ts) == IF ts = 0 THEN "Pa0_jyotyu" ELSE "Pa1_nohara"

\* the file name of a second tileset in slot 1 whose entry in the
\* randomisation table is malformed: tile 49 has no candidates
MalformedFile == "Pa1_gake"

\* globals_.TilesetInfo when loaded: name -> tile -> [tiles, direction, special]
\* 49/50: block tiles, 52: right cap, 64/65: top halves of a vertical pair,
\* 80/81: bottom halves of a vertical pair (top half = bottom half - 0x10)
TilesetInfoTable ==
    ("Pa1_nohara" :>
        ((49 :> [tiles |-> <<49, 50>>, direction |-> 3, special |-> 0]) @@
         (50 :> [tiles |-> <<49, 50>>, direction |-> 3, special |-> 0]) @@
         (52 :> [tiles |-> <<52>>,     direction |-> 1, special |-> 0]) @@
         (64 :> [tiles |-> <<64, 65>>, direction |-> 0, special |-> 1]) @@
         (65 :> [tiles |-> <<64, 65>>, direction |-> 0, special |-> 1]) @@
         (80 :> [tiles |-> <<80, 81>>, direction |-> 0, special |-> 2]) @@
         (81 :> [tiles |-> <<80, 81>>, direction |-> 0, special |-> 2]))) @@
    (MalformedFile :>
        ((49 :> [tiles |-> <<>>,   direction |-> 3, special |-> 0]) @@
         (52 :> [tiles |-> <<52>>, direction |-> 1, special |-> 0])))

\* globals_.ObjectDefinitions[ts][type] is None (a missing definition)
ObjDefMissing(ts, type) == type = 0

\* globals_.ObjectDefinitions[ts][type].rows[0][0] when loaded.
\* Type 1: a block of tile 49 with a right cap 52, type 2: rows alternating
\* top halves 64 and bottom halves 80, type 3: a left column of tile 96 (not
\* in the randomisation table) followed by 49, type 4: a definition whose
\* first row entry is a lone control byte, type 5: a block of tile 52,
\* type 6: a left column of tile 49 followed by the pairs of type 2, type 7:
\* a block of the bottom half 80 (a single-tile definition, repeated).
ObjDefRows00(ts, type) ==
    CASE type = 1 -> <<0, 49, 0>>
      [] type = 2 -> <<0, 64, 0>>
      [] type = 3 -> <<0, 96, 0>>
      [] type = 4 -> <<132>>
      [] type = 5 -> <<0, 52, 0>>
      [] type = 6 -> <<0, 49, 0>>
      [] type = 7 -> <<0, 80, 0>>
      [] OTHER    -> <<>>

\* the tile the definition puts at column x, row y of a w * h render
DefTile(type, x, y, w, h) ==
    CASE type = 1 -> IF x = w - 1 THEN 52 ELSE 49
      [] type = 2 -> IF y % 2 = 0 THEN 64 ELSE 80
      [] type = 3 -> IF x = 0 THEN 96 ELSE 49
      [] type = 4 -> 49
      [] type = 5 -> 52
      [] type = 6 -> IF x = 0 THEN 49 ELSE IF y % 2 = 0 THEN 64 ELSE 80
      [] type = 7 -> 80
      [] OTHER    -> 0

\* tiles.RenderObject: the unrandomised w * h grid of raw tile values
RenderObject(g, tileset, type, w, h) ==
    AsList([y \in 1..h |->
        AsList([x \in 1..w |->
            IF g.ObjectDefinitions = None \/ ObjDefMissing(tileset, type)
            THEN 0
            ELSE tileset * 256 + DefTile(type, x - 1, y - 1, w, h)])])

\* the guard shared by isBottomRowSpecial, randomise and updateObjCacheWH
NoRandInfo(g, o) ==
    \/ g.TilesetFilesLoaded[o.tileset] = None
    \/ g.TilesetInfo = None
    \/ g.ObjectDefinitions = None
    \/ ObjDefMissing(o.tileset, o.type)
    \/ Len(ObjDefRows00(o.tileset, o.type)) = 1

\* name = TilesetFilesLoaded[tileset].split("/")[-1].split(".arc")[0]
TilesetName(g, o) == g.TilesetFilesLoaded[o.tileset]

NameInInfo(g, o) == TilesetName(g, o) \in DOMAIN TilesetInfoTable

\* globals_.TilesetInfo[name][tile] raises KeyError
TileInInfo(name, tile) == tile \in DOMAIN TilesetInfoTable[name]

(***************************************************************************)
(* ObjectItem.randomise.  A randomisation state st carries the grid being  *)
(* rewritten and the record of the random choices made (one entry per      *)
(* assigned cell).  random.choice is a nondeterministic choice, so the     *)
(* operators return the set of all outcomes.                               *)
(***************************************************************************)
\* FilteredTiles looking at the neighbour above only
FilteredTilesTopOnly(info, grid, x, y) ==
    IF Bit1(info.direction) /\ y > 0
    THEN ListRemove(info.tiles, LowByte(grid[y][x + 1]))
    ELSE info.tiles

\* lines 621-643: the candidates left after removing the neighbours' ids
FilteredTiles(info, grid, x, y) ==
    LET t0 == info.tiles
        t1 == IF Bit0(info.direction) /\ x > 0
              THEN ListRemove(t0, LowByte(grid[y + 1][x]))
              ELSE t0
        t2 == IF Bit1(info.direction) /\ y > 0
              THEN ListRemove(t1, LowByte(grid[y][x + 1]))
              ELSE t1
    IN t2

\* lines 645-647: if we removed all options, just use the original tiles
ChoiceTiles(info, grid, x, y) ==
    IF Len(FilteredTiles(info, grid, x, y)) = 0
    THEN info.tiles
    ELSE FilteredTiles(info, grid, x, y)

\* line 649: the stored value for a chosen tile
ComposeChoice(tileset, t) == tileset * 256 + t

\* lines 654-656: the paired top half written above a bottom half
PairedTop(choice) == choice - 16

\* self.objdata[y][x] = v
SetCell(grid, x, y, v) == [grid EXCEPT ![y + 1][x + 1] = v]

\* lines 649-669: the grid after the cell (x, y) received the chosen tile t
AssignCell(tileset, info, grid, x, y, t) ==
    LET choice == ComposeChoice(tileset, t)
        g1 == SetCell(grid, x, y, choice)
    IN IF Bit1(info.special) /\ y > 0
       THEN SetCell(g1, x, y - 1, PairedTop(choice))
       ELSE g1

\* the record of one random choice
ChoiceEntry(info, grid, x, y, t) ==
    [x |-> x, y |-> y, chosen |-> t,
     leftChecked |-> Bit0(info.direction) /\ x > 0,
     left |-> IF x > 0 THEN LowByte(grid[y + 1][x]) ELSE -1,
     emptied |-> Len(FilteredTiles(info, grid, x, y)) = 0,
     candidates |-> Elems(info.tiles),
     bottom |-> Bit1(info.special),
     raised |-> FALSE]

\* line 649: random.choice of an empty list raises IndexError; the record
\* of the exception leaving randomise at the cell (x, y)
RaisedEntry(x, y) ==
    [x |-> x, y |-> y, chosen |-> -1, leftChecked |-> FALSE, left |-> -1,
     emptied |-> TRUE, candidates |-> {}, bottom |-> FALSE, raised |-> TRUE,
     stored |-> -1]

\* an exception is on its way out of the call whose record is log
Raised(log) == \E e \in log : e.raised

\* lines 606-669: the body of the loop for the cell (x, y); the record of a
\* choice also holds the value stored in the cell (line 650)
RandomiseCell(tileset, name, x, y, st) ==
    LET tile == LowByte(st.objdata[y + 1][x + 1])
    IN IF Raised(st.log) THEN {st}
       ELSE IF ~TileInInfo(name, tile) THEN {st}
       ELSE IF Bit0(TilesetInfoTable[name][tile].special) THEN {st}
       ELSE IF Len(ChoiceTiles(TilesetInfoTable[name][tile], st.objdata, x, y)) = 0
       THEN {[st EXCEPT !.log = st.log \cup {RaisedEntry(x, y)}]}
       ELSE { [objdata |-> AssignCell(tileset, TilesetInfoTable[name][tile],
                                      st.objdata, x, y, t),
               log |-> st.log \cup
                       {ChoiceEntry(TilesetInfoTable[name][tile], st.objdata, x, y, t)
                        @@ [stored |-> AssignCell(tileset, TilesetInfoTable[name][tile],
                                                  st.objdata, x, y, t)[y + 1][x + 1]]}] :
               t \in Elems(ChoiceTiles(TilesetInfoTable[name][tile], st.objdata, x, y)) }

\* lines 604-606: the cells k, k+1, ... of the sub-rectangle in row-major
\* order, from every randomisation state in sts
RECURSIVE RandomiseCells(_, _, _, _, _, _, _, _)
RandomiseCells(tileset, name, startx, starty, width, height, k, sts) ==
    IF k >= width * height THEN sts
    ELSE RandomiseCells(tileset, name, startx, starty, width, height, k + 1,
            UNION { RandomiseCell(tileset, name, startx + (k % width),
                                  starty + (k \div width), st) : st \in sts })

\* ObjectItem.randomise(startx, starty, width, height) on the object o whose
\* grid and choice record are st
randomise(g, o, st, startx, starty, width, height) ==
    IF NoRandInfo(g, o) THEN {st}
    ELSE IF ~NameInInfo(g, o) THEN {st}
    ELSE RandomiseCells(o.tileset, TilesetName(g, o), startx, starty, width, height, 0, {st})

\* ObjectItem.updateObjCache: full rebuild at the object's width and height
updateObjCache(g, o) ==
    randomise(g, o,
              [objdata |-> RenderObject(g, o.tileset, o.type, o.width, o.height),
               log |-> {}],
              0, 0, o.width, o.height)

\* ObjectItem.isBottomRowSpecial
isBottomRowSpecial(g, o) ==
    IF NoRandInfo(g, o) THEN FALSE
    ELSE IF ~NameInInfo(g, o) THEN FALSE
    ELSE \E x \in 1..o.width :
            LET tile == LowByte(o.objdata[Len(o.objdata)][x])
            IN /\ TileInInfo(TilesetName(g, o), tile)
               /\ Bit0(TilesetInfoTable[TilesetName(g, o)][tile].special)

(***************************************************************************)
(* ObjectItem.updateObjCacheWH and UpdateObj.  A resize state carries the  *)
(* grid, self.height as the call leaves it, and the random choices made.   *)
(***************************************************************************)
\* s[:n]
PySlice(s, n) == SubSeq(s, 1, IF n < Len(s) THEN (IF n < 0 THEN 0 ELSE n) ELSE Len(s))

\* RebuildAt patching the old grid instead of rendering it again: rows and
\* columns are cut or padded with the first tile of the definition
RebuildAtPatched(g, o, width, height) ==
    { [objdata |-> AsList([y \in 1..height |-> AsList([x \in 1..width |->
                      IF y <= Len(o.objdata) /\ x <= Len(o.objdata[y])
                      THEN o.objdata[y][x]
                      ELSE RenderObject(g, o.tileset, o.type, 1, 1)[1][1]])]),
       height |-> o.height, log |-> {}] }

\* lines 686-690 and 696-700: rerender everything with the dimensions
\* swapped in, then restore the object's own dimensions
RebuildAt(g, o, width, height) ==
    { [objdata |-> r.objdata,
       height |-> IF Raised(r.log) THEN height ELSE o.height,
       log |-> r.log] :
        r \in updateObjCache(g, [o EXCEPT !.width = width, !.height = height]) }

\* lines 692-694: the definition's first tile is not in the table
FirstTileNotRandom(g, o) ==
    \/ ~NameInInfo(g, o)
    \/ ~TileInInfo(TilesetName(g, o), LowByte(ObjDefRows00(o.tileset, o.type)[2]))

\* lines 709-712: the special bottom row is dropped to be rendered again
DropBottomRow(st) ==
    [st EXCEPT !.objdata = SubSeq(st.objdata, 1, Len(st.objdata) - 1),
               !.height = st.height - 1]

\* lines 705-715: the height adjustment
AdjustHeight(g, o, height) ==
    LET st0 == [objdata |-> o.objdata, height |-> o.height, log |-> {}]
    IN IF height < o.height
       THEN {[st0 EXCEPT !.objdata = PySlice(o.objdata, height)]}
       ELSE IF height > o.height
       THEN LET st1 == IF isBottomRowSpecial(g, o) THEN DropBottomRow(st0) ELSE st0
                grown == st1.objdata \o
                         RenderObject(g, o.tileset, o.type, o.width, height - st1.height)
            IN { [objdata |-> r.objdata, height |-> st1.height, log |-> r.log] :
                   r \in randomise(g, o, [objdata |-> grown, log |-> {}],
                                   0, st1.height, o.width, height - st1.height) }
       ELSE {st0}

\* AdjustWidth truncating only the first row when the width shrinks
AdjustWidthFirstRowOnly(g, o, st, width, height) ==
    IF width < o.width
    THEN {[st EXCEPT !.objdata =
              AsList([y \in 1..Len(st.objdata) |->
                  IF y = 1 THEN PySlice(st.objdata[y], width) ELSE st.objdata[y]])]}
    ELSE IF width > o.width
    THEN LET new == RenderObject(g, o.tileset, o.type, width - o.width, height)
             wide == AsList([y \in 1..Len(st.objdata) |-> st.objdata[y] \o new[y]])
         IN { [objdata |-> r.objdata, height |-> st.height, log |-> r.log] :
                r \in randomise(g, o, [objdata |-> wide, log |-> st.log],
                                o.width, 0, width - o.width, height) }
    ELSE {st}

\* lines 717-724: the width adjustment of the grid left by the height adjustment
AdjustWidth(g, o, st, width, height) ==
    IF width < o.width
    THEN {[st EXCEPT !.objdata =
              AsList([y \in 1..Len(st.objdata) |-> PySlice(st.objdata[y], width)])]}
    ELSE IF width > o.width
    THEN LET new == RenderObject(g, o.tileset, o.type, width - o.width, height)
             wide == AsList([y \in 1..Len(st.objdata) |-> st.objdata[y] \o new[y]])
         IN { [objdata |-> r.objdata, height |-> st.height, log |-> r.log] :
                r \in randomise(g, o, [objdata |-> wide, log |-> st.log],
                                o.width, 0, width - o.width, height) }
    ELSE {st}

\* ObjectItem.updateObjCacheWH(width, height)
updateObjCacheWH(g, o, width, height) ==
    IF NoRandInfo(g, o) THEN RebuildAt(g, o, width, height)
    ELSE IF FirstTileNotRandom(g, o) THEN RebuildAt(g, o, width, height)
    ELSE IF width = o.width /\ height = o.height
    THEN {[objdata |-> o.objdata, height |-> o.height, log |-> {}]}
    ELSE UNION { IF Raised(st.log) THEN {st} ELSE AdjustWidth(g, o, st, width, height) :
                   st \in AdjustHeight(g, o, height) }

QRectF(x, y, w, h) == [x |-> x, y |-> y, w |-> w, h |-> h]

\* QRectF.united of two rectangles that are not empty: their bounding
\* rectangle
united(r, q) ==
    LET left   == IF r.x < q.x THEN r.x ELSE q.x
        top    == IF r.y < q.y THEN r.y ELSE q.y
        right  == IF r.x + r.w > q.x + q.w THEN r.x + r.w ELSE q.x + q.w
        bottom == IF r.y + r.h > q.y + q.h THEN r.y + r.h ELSE q.y + q.h
    IN QRectF(left, top, right - left, bottom - top)

\* lines 934-937: the rectangle UpdateObj asks the scene to draw again.
\* self.BoundingRect is QRectF(0, 0, 24 * width, 24 * height) (line 731)
updaterect(o, oldX, oldY, newSize) ==
    united(QRectF(oldX * 24, oldY * 24, 24 * o.width, 24 * o.height),
           QRectF(o.posx, o.posy, newSize[1] * 24, newSize[2] * 24))

\* lines 932, 938: the grid update followed by the size commit.  An
\* exception leaving updateObjCacheWH skips the commit: the width is the one
\* the call left (swapped in and not restored by a rerender, untouched
\* otherwise) and the height the one the call left
UpdateObj(g, o, oldX, oldY, newSize) ==
    { [obj |-> [o EXCEPT !.objdata = r.objdata,
                         !.width = IF Raised(r.log) /\ ~FirstTileNotRandom(g, o)
                                   THEN o.width ELSE newSize[1],
                         !.height = IF Raised(r.log) THEN r.height ELSE newSize[2],
                         !.updaterect = IF Raised(r.log) THEN o.updaterect
                                        ELSE updaterect(o, oldX, oldY, newSize)],
       log |-> r.log] :
        r \in updateObjCacheWH(g, o, newSize[1], newSize[2]) }

\* self.objsDragging = {}
EmptyMap == [id \in {} |-> <<0, 0>>]

\* ObjectItem.__init__ up to the first updateObjCache: the fields of a new object
NewObject(tileset, type, layer, x, y, width, height, z) ==
    [tileset |-> tileset, type |-> type, layer |-> layer,
     objx |-> x, objy |-> y, width |-> width, height |-> height,
     objdata |-> <<>>,
     grabbed |-> {},
     dragging |-> FALSE, dragstartx |-> -1, dragstarty |-> -1,
     objsDragging |-> EmptyMap,
     posx |-> x * 24, posy |-> y * 24,
     z |-> z,
     positionChanged |-> None,
     updaterect |-> QRectF(0, 0, 0, 0),
     selected |-> FALSE]

\* the object o in the scene of the window (reggie.py lines 2157, 3173-3176):
\* its positionChanged callback is ReggieWindow.HandleObjPosChange
AddToScene(o) == [o EXCEPT !.positionChanged = "HandleObjPosChange"]

\* ObjectItem.__init__: the possible objects after construction
ObjectItem(g, tileset, type, layer, x, y, width, height, z) ==
    LET o == NewObject(tileset, type, layer, x, y, width, height, z)
    IN { [obj |-> [o EXCEPT !.objdata = r.objdata], log |-> r.log] :
           r \in updateObjCache(g, o) }

\* the mouse with no button pressed
\* the mouse with no button down and the Alt key up.  gesture numbers the
\* press, start holds the positions of the selected items at the press;
\* cellx, celly, sizes and cells record the cell of the press and the sizes
\* and cells of the items selected at the press, accepted counts the cell
\* changes of the drag (each calls positionChanged once) and events the
\* presses and moves so far.
PointerUp ==
    [down |-> FALSE, alt |-> FALSE, item |-> 0, pressx |-> 0, pressy |-> 0,
     x |-> 0, y |-> 0, gesture |-> 0, start |-> EmptyMap,
     cellx |-> 0, celly |-> 0, sizes |-> EmptyMap, cells |-> EmptyMap,
     accepted |-> 0, events |-> 0]

\* ReggieWindow.__init__ (lines 194-200); Dirty is the flag of unsaved
\* changes the window shows (globals_.Dirty)
NewMainWindow == [CurrentSelection |-> {}, undoStack |-> <<>>, Dirty |-> FALSE, SelectionUpdateFlag |-> FALSE]

\* SetDirty(): the level has unsaved changes
SetDirty(mw) == [mw EXCEPT !.Dirty = TRUE]

(***************************************************************************)
(* The states of the tileset metadata.                                     *)
(***************************************************************************)
MetadataStates ==
    { [TilesetFilesLoaded |-> f, TilesetInfo |-> ti, ObjectDefinitions |-> od,
        OverrideSnapping |-> FALSE] :
        f \in { h \in [Tilesets -> {None, "Pa0_jyotyu", "Pa1_nohara"}] :
                  \A ts \in Tilesets : h[ts] \in {None, TilesetFile(ts)} },
        ti \in {None, "loaded"},
        od \in {None, "loaded"} }

(***************************************************************************)
(* The tile-grid compositor on one object: construction, SetType, tileset  *)
(* reload (full rebuild of every object) and resize steps.                 *)
(***************************************************************************)
Sizes == (1..MaxW) \X (1..MaxH)

InitGrid ==
    /\ globals_ \in MetadataStates
    /\ \E ts \in Tilesets, type \in ObjTypes, size \in Sizes :
         \E r \in ObjectItem(globals_, ts, type, 1, 10, 10, size[1], size[2], 8192) :
            /\ objs = (1 :> AddToScene(r.obj))
            /\ choices = r.log
    /\ lastOp = [op |-> "init", obj |-> 1, special |-> FALSE, anchor |-> None,
                 notified |-> {}]
    /\ items = EmptyMap
    /\ pointer = PointerUp
    /\ mainWindow = NewMainWindow
    /\ Area = [layers |-> <<<<>>, AsList([i \in 1..Cardinality(DOMAIN objs) |-> i]), <<>>>>]

\* ObjectItem.SetType
SetType(id, tileset, type) ==
    /\ id \in DOMAIN objs
    /\ LET o == [objs[id] EXCEPT !.tileset = tileset, !.type = type]
       IN \E r \in updateObjCache(globals_, o) :
            /\ objs' = [objs EXCEPT ![id] = [o EXCEPT !.objdata = r.objdata]]
            /\ choices' = r.log
    /\ lastOp' = [op |-> "SetType", obj |-> id, special |-> FALSE, anchor |-> None,
                  notified |-> {}]
    /\ UNCHANGED <<Area, globals_, items, pointer, mainWindow>>

\* ReggieWindow.ReloadTilesets: the metadata is loaded again and every
\* object is rebuilt
ReloadTilesets(g) ==
    /\ globals_' = g
    /\ \E outs \in {[id \in DOMAIN objs |-> updateObjCache(g, objs[id])]} :
         \E f \in [DOMAIN objs -> UNION {outs[id] : id \in DOMAIN objs}] :
            /\ \A id \in DOMAIN objs : f[id] \in outs[id]
            /\ objs' = [id \in DOMAIN objs |-> [objs[id] EXCEPT !.objdata = f[id].objdata]]
            /\ choices' = UNION {f[id].log : id \in DOMAIN objs}
    /\ lastOp' = [op |-> "ReloadTilesets", obj |-> 0, special |-> FALSE, anchor |-> None,
                  notified |-> {}]
    /\ UNCHANGED <<Area, items, pointer, mainWindow>>

\* one resize step of one object: ObjectItem.UpdateObj with a new size
ResizeStep(id, newSize) ==
    /\ id \in DOMAIN objs
    /\ \E r \in UpdateObj(globals_, objs[id], objs[id].objx, objs[id].objy, newSize) :
         /\ objs' = [objs EXCEPT ![id] = r.obj]
         /\ choices' = r.log
    /\ lastOp' = [op |-> "UpdateObj", obj |-> id,
                  special |-> /\ newSize[2] > objs[id].height
                              /\ ~NoRandInfo(globals_, objs[id])
                              /\ ~FirstTileNotRandom(globals_, objs[id])
                              /\ isBottomRowSpecial(globals_, objs[id]),
                  anchor |-> None, notified |-> {}]
    /\ UNCHANGED <<Area, globals_, items, pointer, mainWindow>>

NextGrid ==
    \/ \E id \in DOMAIN objs, ts \in Tilesets, type \in ObjTypes : SetType(id, ts, type)
    \/ \E g \in MetadataStates : ReloadTilesets(g)
    \/ \E id \in DOMAIN objs, size \in Sizes : ResizeStep(id, size)

SpecGrid == InitGrid /\ [][NextGrid]_vars

\* the metadata after a reload that finds the malformed tileset in slot 1
MalformedStates ==
    { [TilesetFilesLoaded |-> f, TilesetInfo |-> "loaded", ObjectDefinitions |-> "loaded",
        OverrideSnapping |-> FALSE] :
        f \in { h \in [Tilesets -> {None, "Pa0_jyotyu", MalformedFile}] :
                  h[0] \in {None, TilesetFile(0)} /\ h[1] = MalformedFile } }

\* an unhandled exception was reported by the last operation (_excepthook)
ErrorRaised == Raised(choices)

\* the compositor with reloads that may find the malformed tileset,
\* followed up to the first unhandled exception
NextMalformed ==
    \/ \E id \in DOMAIN objs, ts \in Tilesets, type \in ObjTypes :
          ~ErrorRaised /\ SetType(id, ts, type)
    \/ \E g \in MetadataStates \cup MalformedStates : ~ErrorRaised /\ ReloadTilesets(g)
    \/ \E id \in DOMAIN objs, size \in Sizes : ~ErrorRaised /\ ResizeStep(id, size)

SpecMalformed == InitGrid /\ [][NextMalformed]_vars

\* the definitions made of vertical pairs, in narrow grids of up to MaxRows
\* rows, with all metadata loaded
PairTypes == {2, 6, 7}
PairSizes == (1..2) \X (1..MaxRows)

InitPairs ==
    /\ globals_ = [TilesetFilesLoaded |-> [ts \in Tilesets |-> TilesetFile(ts)],
                   TilesetInfo |-> "loaded", ObjectDefinitions |-> "loaded",
     OverrideSnapping |-> FALSE]
    /\ \E type \in PairTypes, size \in PairSizes :
         \E r \in ObjectItem(globals_, 1, type, 1, 10, 10, size[1], size[2], 8192) :
            /\ objs = (1 :> AddToScene(r.obj))
            /\ choices = r.log
    /\ lastOp = [op |-> "init", obj |-> 1, special |-> FALSE, anchor |-> None,
                 notified |-> {}]
    /\ items = EmptyMap
    /\ pointer = PointerUp
    /\ mainWindow = NewMainWindow
    /\ Area = [layers |-> <<<<>>, <<1>>, <<>>>>]

NextPairs ==
    \/ \E type \in PairTypes : SetType(1, 1, type)
    \/ ReloadTilesets(globals_)
    \/ \E size \in PairSizes : ResizeStep(1, size)

SpecPairs == InitPairs /\ [][NextPairs]_vars

\* ---- the values randomise writes, for every candidate tile id ----

\* an object of one column and two rows in either tileset slot
InitValues ==
    /\ globals_ = [TilesetFilesLoaded |-> [ts \in Tilesets |-> TilesetFile(ts)],
                   TilesetInfo |-> "loaded", ObjectDefinitions |-> "loaded",
                   OverrideSnapping |-> FALSE]
    /\ \E ts \in Tilesets :
         \E r \in ObjectItem(globals_, ts, 5, 1, 10, 10, 1, 2, 8192) :
            objs = (1 :> AddToScene(r.obj))
    /\ choices = {}
    /\ lastOp = [op |-> "init", obj |-> 1, special |-> FALSE, anchor |-> None,
                 notified |-> {}]
    /\ items = EmptyMap
    /\ pointer = PointerUp
    /\ mainWindow = NewMainWindow
    /\ Area = [layers |-> <<<<>>, <<1>>, <<>>>>]

\* lines 649-656 for the cell (0, 1) of the object: t is the tile id
\* random.choice returned, special the mask of the table entry
WriteChoice(t, special) ==
    /\ objs' = [objs EXCEPT ![1].objdata =
                   AssignCell(objs[1].tileset,
                              [tiles |-> <<t>>, direction |-> 0, special |-> special],
                              objs[1].objdata, 0, 1, t)]
    /\ choices' = {[x |-> 0, y |-> 1, chosen |-> t, bottom |-> Bit1(special)]}
    /\ lastOp' = [op |-> "randomise", obj |-> 1, special |-> Bit1(special),
                  anchor |-> None, notified |-> {}]
    /\ UNCHANGED <<Area, globals_, items, pointer, mainWindow>>

\* every candidate tile id, in a table entry of a bottom half (special mask 2)
SpecValues == InitValues /\ [][\E t \in 0..255 : WriteChoice(t, 2)]_vars

(***************************************************************************)
(* Positions.  ObjectItem.itemChange snaps a requested scene position      *)
(* (pixels) to whole cells and clamps it to the level; QGraphicsItem.setPos*)
(* passes every new position through it.                                   *)
(***************************************************************************)
\* ObjectSnap without the level bounds of lines 776-780
ObjectSnapUnbounded(x, y) ==
    LET sx == Trunc(x + 12, 24) * 24
        sy == Trunc(y + 12, 24) * 24
    IN [posx |-> sx, posy |-> sy, x |-> Trunc(sx, 24), y |-> Trunc(sy, 24)]

\* lines 769-784: the position returned for the requested position (x, y)
\* and the cell it corresponds to
ObjectSnap(x, y) ==
    LET sx == Trunc(x + 12, 24) * 24
        sy == Trunc(y + 12, 24) * 24
        cx == IF sx < 0 THEN 0 ELSE IF sx > 24576 THEN 24576 ELSE sx
        cy == IF sy < 0 THEN 0 ELSE IF sy > 12288 THEN 12288 ELSE sy
    IN [posx |-> cx, posy |-> cy, x |-> Trunc(cx, 24), y |-> Trunc(cy, 24)]

\* the undo record MoveItemUndoAction(item, oldx, oldy, x, y)
MoveItemUndoAction(item, oldx, oldy, x, y) ==
    [kind |-> "move", item |-> item, oldx |-> oldx, oldy |-> oldy, x |-> x, y |-> y]

\* SimultaneousUndoAction(acts): one record bundling the records acts
SimultaneousUndoAction(acts) == [kind |-> "multi", acts |-> acts]

\* the record a extended by the later record b of the same drag: a move
\* keeps its old position and takes the new position of b; a bundle does so
\* for every item
ExtendAction(a, b) ==
    IF a.kind = "move" THEN [a EXCEPT !.x = b.x, !.y = b.y]
    ELSE SimultaneousUndoAction(
            {[m EXCEPT !.x = (CHOOSE n \in b.acts : n.item = m.item).x,
                       !.y = (CHOOSE n \in b.acts : n.item = m.item).y] :
                 m \in {m \in a.acts : \E n \in b.acts : n.item = m.item}}
            \cup {m \in a.acts : \A n \in b.acts : n.item # m.item}
            \cup {n \in b.acts : \A m \in a.acts : m.item # n.item})

\* b continues the record a
IsExtension(a, b) ==
    /\ a.kind = b.kind
    /\ a.kind = "move" => a.item = b.item

\* UndoStack.addOrExtendAction: a record of the drag in progress that
\* continues the record on top of the stack extends it, any other record is
\* pushed.  Every entry carries the drag (pointer.gesture) it was made in.
addOrExtendAction(stack, act) ==
    IF /\ Len(stack) > 0
       /\ stack[Len(stack)].gesture = pointer.gesture
       /\ IsExtension(stack[Len(stack)].act, act)
    THEN [stack EXCEPT ![Len(stack)].act = ExtendAction(@, act)]
    ELSE Append(stack, [act |-> act, gesture |-> pointer.gesture])

\* lines 792-793: the calls of positionChanged when the object o, of the
\* identity id, changed its cell
PositionChanged(o, id, oldx, oldy, x, y) ==
    IF o.positionChanged # None THEN {<<id, oldx, oldy, x, y>>} ELSE {}

\* lines 785-801: the undo stack and the dirty flag after the object id
\* changed its cell
ObjectMoveUndo(mw, id, oldx, oldy, x, y) ==
    SetDirty(IF Cardinality(mw.CurrentSelection) = 1
             THEN [mw EXCEPT !.undoStack =
                      addOrExtendAction(mw.undoStack,
                                        MoveItemUndoAction(id, oldx, oldy, x, y))]
             ELSE mw)

\* ObjectItem.itemChange without the test of line 785
ObjectSetPosUntested(o, x, y) ==
    IF x = o.posx /\ y = o.posy THEN [obj |-> o, changed |-> FALSE]
    ELSE LET n == ObjectSnap(x, y)
         IN [obj |-> [o EXCEPT !.posx = n.posx, !.posy = n.posy,
                               !.objx = n.x, !.objy = n.y],
             changed |-> TRUE]

\* QGraphicsItem.setPos(x, y) on an object in the scene, with
\* ObjectItem.itemChange (lines 760-812): the object afterwards and whether
\* its cell changed
ObjectSetPos(o, x, y) ==
    IF x = o.posx /\ y = o.posy THEN [obj |-> o, changed |-> FALSE]
    ELSE LET n == ObjectSnap(x, y)
         IN [obj |-> [o EXCEPT !.posx = n.posx, !.posy = n.posy,
                               !.objx = n.x, !.objy = n.y],
             changed |-> n.x # o.objx \/ n.y # o.objy]

(***************************************************************************)
(* The resize grabbers (ObjectItem.UpdateRects).  Pointer positions are in *)
(* 1/100 pixel, so that the grabber size 4.8 + 0.01 * width * height is a  *)
(* whole number.                                                           *)
(***************************************************************************)
Anchors == {"TL", "TR", "BL", "BR", "MT", "ML", "MB", "MR"}

Min(a, b) == IF a < b THEN a ELSE b

\* lines 734-737
grabbersize(o) == Min(Min(480 + o.width * o.height, o.width * 900), o.height * 900)

\* QRectF.contains(QPointF): the edges belong to the rectangle, an empty
\* rectangle contains nothing
Contains(r, px, py) ==
    /\ r.w > 0 /\ r.h > 0
    /\ r.x <= px /\ px <= r.x + r.w
    /\ r.y <= py /\ py <= r.y + r.h

\* lines 739-756: the rectangles tested by mousePressEvent
GrabberRect(o, a) ==
    LET g == grabbersize(o)
        W == 2400 * o.width
        H == 2400 * o.height
        longwidth == W - 2 * g
        longheight == H - 2 * g
    IN CASE a = "TL" -> QRectF(0, 0, g, g)
         [] a = "TR" -> QRectF(W - g, 0, g, g)
         [] a = "BL" -> QRectF(0, H - g, g, g)
         [] a = "BR" -> QRectF(W - g, H - g, g, g)
         [] a = "MT" -> QRectF(g, 0, longwidth, g)
         [] a = "ML" -> QRectF(0, g, g, longheight)
         [] a = "MB" -> QRectF(g, longheight + g, longwidth, g)
         [] a = "MR" -> QRectF(longwidth + g, g, g, longheight)

\* lines 887-894: the grabbed flags set by a press at the item position (px, py)
GrabbedAt(o, px, py) == {a \in Anchors : Contains(GrabberRect(o, a), px, py)}

\* the if/elif chain of mouseMoveEvent (lines 958-1182): the branch taken
ActiveAnchor(grabbed) ==
    IF "TL" \in grabbed THEN "TL"
    ELSE IF "TR" \in grabbed THEN "TR"
    ELSE IF "BL" \in grabbed THEN "BL"
    ELSE IF "BR" \in grabbed THEN "BR"
    ELSE IF "MT" \in grabbed THEN "MT"
    ELSE IF "ML" \in grabbed THEN "ML"
    ELSE IF "MB" \in grabbed THEN "MB"
    ELSE IF "MR" \in grabbed THEN "MR"
    ELSE None

\* the item positions a press is tried at: the centre of each grabber and
\* the centre of the object
PressPoints(o) ==
    { <<GrabberRect(o, a).x + GrabberRect(o, a).w \div 2,
        GrabberRect(o, a).y + GrabberRect(o, a).h \div 2>> : a \in Anchors }
    \cup { <<1200 * o.width, 1200 * o.height>> }

\* event.pos(): the scene position (sx, sy) in the coordinates of the item o
ItemX(o, sx) == sx - 100 * o.posx
ItemY(o, sy) == sy - 100 * o.posy

(***************************************************************************)
(* ObjectItem.mouseMoveEvent: one resize step of one participant.          *)
(* snap is the participant's entry of objsDragging, (dx, dy) the pointer   *)
(* cell minus the drag start cell.  The result names the new entry, the    *)
(* new origin, whether setPos is called and, when UpdateObj is called      *)
(* (call), the size passed to it.                                          *)
(***************************************************************************)
FloorSizeAtZero(n) == IF n < 0 THEN 0 ELSE n

\* lines 1096-1100 (and 1023, 1065, 1174, 1193): sizes below 1 become 1
FloorSize(n) == IF n < 1 THEN 1 ELSE n

\* lines 982, 989, 1028, 1068, 1123, 1151: the origin may move to newOrigin
\* only if that keeps the opposite edge where it is
OriginFits(newOrigin, newSize, origin, size) ==
    newOrigin >= 0 /\ newOrigin + newSize = origin + size

StepResult(o, snap, objx, objy, newSize, setpos, call) ==
    [snap |-> snap, objx |-> objx, objy |-> objy,
     newSize |-> newSize, setpos |-> setpos, call |-> call]

\* lines 961-998
StepTL(o, snap, dx, dy) ==
    LET w1 == snap[1] - dx
        h1 == snap[2] - dy
        okx == OriginFits(o.objx + dx, w1, o.objx, o.width)
        oky == OriginFits(o.objy + dy, h1, o.objy, o.height)
    IN IF w1 < 1 \/ h1 < 1
       THEN StepResult(o, <<IF w1 < 1 THEN snap[1] ELSE w1,
                            IF h1 < 1 THEN snap[2] ELSE h1>>,
                       o.objx, o.objy, <<o.width, o.height>>, FALSE, FALSE)
       ELSE StepResult(o, <<IF okx THEN w1 ELSE snap[1], IF oky THEN h1 ELSE snap[2]>>,
                       IF okx THEN o.objx + dx ELSE o.objx,
                       IF oky THEN o.objy + dy ELSE o.objy,
                       <<IF okx THEN w1 ELSE o.width, IF oky THEN h1 ELSE o.height>>,
                       TRUE, TRUE)

\* lines 1010-1039
StepTR(o, snap, dx, dy) ==
    LET w1 == snap[1] + dx
        h1 == snap[2] - dy
        oky == OriginFits(o.objy + dy, h1, o.objy, o.height)
    IN IF h1 < 1
       THEN StepResult(o, <<w1, snap[2]>>, o.objx, o.objy,
                       <<o.width, o.height>>, FALSE, FALSE)
       ELSE StepResult(o, <<w1, IF oky THEN h1 ELSE snap[2]>>,
                       o.objx, IF oky THEN o.objy + dy ELSE o.objy,
                       <<FloorSize(w1), IF oky THEN h1 ELSE o.height>>,
                       oky, TRUE)

\* lines 1051-1077
StepBL(o, snap, dx, dy) ==
    LET w1 == snap[1] - dx
        h1 == snap[2] + dy
        okx == OriginFits(o.objx + dx, w1, o.objx, o.width)
    IN IF w1 < 1
       THEN StepResult(o, <<snap[1], h1>>, o.objx, o.objy,
                       <<o.width, o.height>>, FALSE, FALSE)
       ELSE StepResult(o, <<IF okx THEN w1 ELSE snap[1], h1>>,
                       IF okx THEN o.objx + dx ELSE o.objx, o.objy,
                       <<IF okx THEN w1 ELSE o.width, FloorSize(h1)>>,
                       okx, TRUE)

StepBRWidthOnly(o, snap, dx, dy) ==
    StepResult(o, <<snap[1] + dx, snap[2]>>, o.objx, o.objy,
               <<FloorSize(snap[1] + dx), FloorSize(snap[2])>>, FALSE, TRUE)

\* lines 1090-1104
StepBR(o, snap, dx, dy) ==
    StepResult(o, <<snap[1] + dx, snap[2] + dy>>, o.objx, o.objy,
               <<FloorSize(snap[1] + dx), FloorSize(snap[2] + dy)>>, FALSE, TRUE)

\* lines 1111-1131
StepMT(o, snap, dx, dy) ==
    LET h1 == snap[2] - dy
        oky == OriginFits(o.objy + dy, h1, o.objy, o.height)
    IN IF h1 < 1
       THEN StepResult(o, snap, o.objx, o.objy, <<o.width, o.height>>, FALSE, FALSE)
       ELSE StepResult(o, <<snap[1], IF oky THEN h1 ELSE snap[2]>>,
                       o.objx, IF oky THEN o.objy + dy ELSE o.objy,
                       <<o.width, IF oky THEN h1 ELSE o.height>>, oky, TRUE)

\* lines 1138-1159
StepML(o, snap, dx, dy) ==
    LET w1 == snap[1] - dx
        okx == OriginFits(o.objx + dx, w1, o.objx, o.width)
    IN IF w1 < 1
       THEN StepResult(o, snap, o.objx, o.objy, <<o.width, o.height>>, FALSE, FALSE)
       ELSE StepResult(o, <<IF okx THEN w1 ELSE snap[1], snap[2]>>,
                       IF okx THEN o.objx + dx ELSE o.objx, o.objy,
                       <<IF okx THEN w1 ELSE o.width, o.height>>, okx, TRUE)

StepMBMovingOrigin(o, snap, dx, dy) ==
    StepResult(o, <<snap[1], snap[2] + dy>>, o.objx, o.objy + 1,
               <<o.width, FloorSize(snap[2] + dy)>>, TRUE, TRUE)

\* lines 1171-1178
StepMB(o, snap, dx, dy) ==
    StepResult(o, <<snap[1], snap[2] + dy>>, o.objx, o.objy,
               <<o.width, FloorSize(snap[2] + dy)>>, FALSE, TRUE)

\* lines 1190-1197
StepMR(o, snap, dx, dy) ==
    StepResult(o, <<snap[1] + dx, snap[2]>>, o.objx, o.objy,
               <<FloorSize(snap[1] + dx), o.height>>, FALSE, TRUE)

\* the body of the loop over objsDragging in the branch of the anchor a
ResizeOne(a, o, snap, dx, dy) ==
    CASE a = "TL" -> StepTL(o, snap, dx, dy)
      [] a = "TR" -> StepTR(o, snap, dx, dy)
      [] a = "BL" -> StepBL(o, snap, dx, dy)
      [] a = "BR" -> StepBR(o, snap, dx, dy)
      [] a = "MT" -> StepMT(o, snap, dx, dy)
      [] a = "ML" -> StepML(o, snap, dx, dy)
      [] a = "MB" -> StepMB(o, snap, dx, dy)
      [] a = "MR" -> StepMR(o, snap, dx, dy)

\* the anchors whose branch clamps clickedx (clickedy) at 0 and advances
\* dragstartx (dragstarty) to the pointer cell
AdvancesX(a) == a \in {"TR", "BR", "MR"}
AdvancesY(a) == a \in {"BL", "BR", "MB"}

\* lines 959, 1006, 1047, 1085, 1109, 1136, 1167, 1186: the branch acts
BranchActs(a, clickedx, clickedy, dsx, dsy) ==
    CASE a \in {"TL", "TR", "BL", "BR"} -> clickedx # dsx \/ clickedy # dsy
      [] a \in {"MT", "MB"} -> clickedy # dsy
      [] a \in {"ML", "MR"} -> clickedx # dsx

\* the participant o after its step r, before UpdateObj
Repositioned(o, r) ==
    LET o1 == [o EXCEPT !.objx = r.objx, !.objy = r.objy]
    IN IF r.setpos THEN ObjectSetPos(o1, o1.objx * 24, o1.objy * 24)
       ELSE [obj |-> o1, changed |-> FALSE]

\* the possible objects after the step r of the participant o
Resized(g, o, r, cx, cy) ==
    IF r.call
    THEN {u.obj : u \in UpdateObj(g, Repositioned(o, r).obj, cx, cy, r.newSize)}
    ELSE {o}

(***************************************************************************)
(* The interactive resize protocol: two objects in one layer, selected by  *)
(* a click or by Select All, and resized by dragging a grabber.            *)
(***************************************************************************)
Selected == {id \in DOMAIN objs : objs[id].selected}

AllLoaded ==
    [TilesetFilesLoaded |-> [ts \in Tilesets |-> TilesetFile(ts)],
     TilesetInfo |-> "loaded", ObjectDefinitions |-> "loaded",
     OverrideSnapping |-> FALSE]

\* the origins and sizes of the two objects the gestures start from
Scenes ==
    {<<<<10, 10, 3, 2>>, <<1, 0, 2, 1>>>>}

InitResize ==
    /\ globals_ = AllLoaded
    /\ \E sc \in Scenes :
         \E r1 \in ObjectItem(globals_, 0, 5, 1, sc[1][1], sc[1][2], sc[1][3], sc[1][4], 8192),
            r2 \in ObjectItem(globals_, 1, 5, 1, sc[2][1], sc[2][2], sc[2][3], sc[2][4], 8193) :
            objs = (1 :> AddToScene(r1.obj)) @@ (2 :> AddToScene(r2.obj))
    /\ items = EmptyMap
    /\ choices = {}
    /\ lastOp = [op |-> "init", obj |-> 0, special |-> FALSE, anchor |-> None,
                 notified |-> {}]
    /\ pointer = PointerUp
    /\ mainWindow = NewMainWindow
    /\ Area = [layers |-> <<<<>>, AsList([i \in 1..Cardinality(DOMAIN objs) |-> i]), <<>>>>]

\* int(thing.dragoffsetx) for the offset ChangeSelectionHandler stores
\* (reggie.py lines 3450-3451); objx is in 1/16 of a cell
DragOffset(objx) == Trunc(3 * (((objx \div 16) * 16) - objx), 2)

\* the scene after its selection became S, with ChangeSelectionHandler run
\* (reggie.py lines 3445-3451)
SelectedObjs(S) == [id \in DOMAIN objs |-> [objs[id] EXCEPT !.selected = id \in S]]
SelectedItems(S) ==
    [id \in DOMAIN items |->
        IF id \in S
        THEN [items[id] EXCEPT !.selected = TRUE,
                               !.dragoffsetx = DragOffset(items[id].objx),
                               !.dragoffsety = DragOffset(items[id].objy)]
        ELSE [items[id] EXCEPT !.selected = FALSE]]

\* the scene positions and the cells of the items of S
Positions(os, is, S) ==
    [id \in S |-> IF id \in DOMAIN os THEN <<os[id].posx, os[id].posy>>
                  ELSE <<is[id].posx, is[id].posy>>]
Cells(os, is, S) ==
    [id \in S |-> IF id \in DOMAIN os THEN <<os[id].objx, os[id].objy>>
                  ELSE <<is[id].objx, is[id].objy>>]

\* ReggieWindow.ChangeSelectionHandler after the selection of the scene
\* became S (a rubber band, or SelectAll for the whole scene)
ChangeSelectionHandler(S) ==
    /\ ~pointer.down
    /\ S # mainWindow.CurrentSelection
    /\ objs' = SelectedObjs(S)
    /\ items' = SelectedItems(S)
    \* line 3283: if self.SelectionUpdateFlag: return
    /\ mainWindow' = IF mainWindow.SelectionUpdateFlag THEN mainWindow
                     ELSE [mainWindow EXCEPT !.CurrentSelection = S]
    /\ lastOp' = [op |-> "ChangeSelectionHandler", obj |-> 0, special |-> FALSE,
                  anchor |-> None, notified |-> {}]
    /\ UNCHANGED <<Area, globals_, choices, pointer>>

\* ReggieWindow.SelectAll (reggie.py lines 1664-1670)
SelectAll == ChangeSelectionHandler(DOMAIN objs \cup DOMAIN items)

\* lines 896-905: the press starts a resize gesture
StartsDragging(o, px, py) == o.selected /\ GrabbedAt(o, px, py) # {}

\* the pointer after a press on the item id at the scene position (sx, sy),
\* (cx, cy) being the cell of the press
Pressed(id, sx, sy, cx, cy, os, is, S) ==
    [down |-> TRUE, alt |-> pointer.alt, item |-> id,
     pressx |-> sx, pressy |-> sy, x |-> sx, y |-> sy,
     gesture |-> pointer.events + 1,
     start |-> Positions(os, is, S),
     cellx |-> cx, celly |-> cy,
     sizes |-> [sid \in S \cap DOMAIN os |-> <<os[sid].width, os[sid].height>>],
     cells |-> Cells(os, is, S),
     accepted |-> 0,
     events |-> pointer.events + 1]

\* ObjectItem.mousePressEvent with the left button and without Ctrl, at the
\* item position (px, py)
mousePressEvent(id, px, py) ==
    /\ ~pointer.down
    /\ id \in DOMAIN objs
    /\ pointer.events < MaxEvents
    /\ LET o == objs[id]
           \* QGraphicsItem.mousePressEvent: an unselected item becomes the
           \* selection
           S == IF o.selected THEN mainWindow.CurrentSelection ELSE {id}
       IN /\ IF StartsDragging(o, px, py)
             THEN /\ objs' = [objs EXCEPT ![id] =
                               [o EXCEPT !.grabbed = GrabbedAt(o, px, py),
                                         !.dragging = TRUE,
                                         !.dragstartx = Trunc(px - 1000, 2400),
                                         !.dragstarty = Trunc(py - 1000, 2400),
                                         !.objsDragging =
                                             [sid \in Selected |->
                                                 <<objs[sid].width, objs[sid].height>>]]]
                  /\ items' = items
             ELSE /\ objs' = [SelectedObjs(S) EXCEPT ![id] =
                               [@ EXCEPT !.grabbed = GrabbedAt(o, px, py),
                                         !.dragging = FALSE,
                                         !.objsDragging = EmptyMap]]
                  /\ items' = IF o.selected THEN items ELSE SelectedItems(S)
          /\ mainWindow' = [mainWindow EXCEPT !.CurrentSelection = S]
          /\ pointer' = Pressed(id, 100 * o.posx + px, 100 * o.posy + py,
                                Trunc(px - 1000, 2400), Trunc(py - 1000, 2400),
                                objs, items, S)
    /\ lastOp' = [op |-> "mousePressEvent", obj |-> id, special |-> FALSE,
                  anchor |-> ActiveAnchor(GrabbedAt(objs[id], px, py)), notified |-> {}]
    /\ UNCHANGED <<Area, globals_, choices>>

\* lines 952-953 and the clamps of lines 1003, 1044, 1082, 1164, 1183: the
\* pointer cell used by the branch of the anchor a
ClickedX(a, d, sx) ==
    IF AdvancesX(a) /\ Trunc(ItemX(d, sx) - 1200, 2400) < 0 THEN 0
    ELSE Trunc(ItemX(d, sx) - 1200, 2400)
ClickedY(a, d, sy) ==
    IF AdvancesY(a) /\ Trunc(ItemY(d, sy) - 1200, 2400) < 0 THEN 0
    ELSE Trunc(ItemY(d, sy) - 1200, 2400)

\* the undo stack after the setPos calls of a resize step (itemChange adds a
\* record when the clamp moved the object to another cell)
RECURSIVE ResizeUndo(_, _, _, _)
ResizeUndo(mw, ids, before, after) ==
    IF ids = {} THEN mw
    ELSE LET id == CHOOSE i \in ids : TRUE
         IN ResizeUndo(IF after[id].changed
                       THEN ObjectMoveUndo(mw, id, before[id].objx, before[id].objy,
                                           after[id].obj.objx, after[id].obj.objy)
                       ELSE mw,
                       ids \ {id}, before, after)

\* the calls of positionChanged made by the setPos calls of a resize step
ResizeCalls(ids, before, after) ==
    UNION {IF after[p].changed
           THEN PositionChanged(objs[p], p, before[p].objx, before[p].objy,
                                after[p].obj.objx, after[p].obj.objy)
           ELSE {} : p \in ids}

\* ObjectItem.mouseMoveEvent of the grabbing object while it is dragging
\* (lines 947-1199): the pointer is at the scene position (sx, sy)
ResizeMove(sx, sy) ==
    LET id == pointer.item
        d == objs[id]
        a == ActiveAnchor(d.grabbed)
    IN /\ a # None
       /\ \E clickedx \in {ClickedX(a, d, sx)}, clickedy \in {ClickedY(a, d, sy)} :
          IF ~BranchActs(a, clickedx, clickedy, d.dragstartx, d.dragstarty)
          THEN /\ UNCHANGED <<objs, mainWindow, choices>>
               /\ lastOp' = [op |-> "mouseMoveEvent", obj |-> id, special |-> FALSE,
                             anchor |-> a, notified |-> {}]
          ELSE
            \E steps \in {[p \in DOMAIN d.objsDragging |->
                             ResizeOne(a, objs[p], d.objsDragging[p],
                                       clickedx - d.dragstartx,
                                       clickedy - d.dragstarty)]} :
            \E outs \in {[p \in DOMAIN d.objsDragging |->
                             Resized(globals_, objs[p], steps[p], d.objx, d.objy)]} :
            \E f \in [DOMAIN d.objsDragging ->
                        UNION {outs[p] : p \in DOMAIN d.objsDragging}] :
               /\ \A p \in DOMAIN d.objsDragging : f[p] \in outs[p]
               /\ objs' = [i \in DOMAIN objs |->
                            LET o1 == IF i \in DOMAIN d.objsDragging THEN f[i] ELSE objs[i]
                            IN IF i = id
                               THEN [o1 EXCEPT
                                       !.dragstartx = IF AdvancesX(a) THEN clickedx ELSE @,
                                       !.dragstarty = IF AdvancesY(a) THEN clickedy ELSE @,
                                       !.objsDragging =
                                          [p \in DOMAIN d.objsDragging |-> steps[p].snap]]
                               ELSE o1]
               /\ mainWindow' =
                     SetDirty(ResizeUndo(mainWindow, DOMAIN d.objsDragging,
                                         [p \in DOMAIN d.objsDragging |->
                                            [objx |-> steps[p].objx, objy |-> steps[p].objy]],
                                         [p \in DOMAIN d.objsDragging |->
                                            Repositioned(objs[p], steps[p])]))
               /\ choices' = {}
               /\ lastOp' = [op |-> "mouseMoveEvent", obj |-> id, special |-> FALSE,
                             anchor |-> a,
                             notified |->
                                ResizeCalls(DOMAIN d.objsDragging,
                                   [p \in DOMAIN d.objsDragging |->
                                      [objx |-> steps[p].objx, objy |-> steps[p].objy]],
                                   [p \in DOMAIN d.objsDragging |->
                                      Repositioned(objs[p], steps[p])])]
       /\ pointer' = [pointer EXCEPT !.x = sx, !.y = sy, !.events = @ + 1]
       /\ UNCHANGED <<Area, globals_, items>>

(***************************************************************************)
(* Positions of entrances and sprites.  Their scene positions are kept in  *)
(* 1/2 pixel (Alt leaves a sprite on a multiple of 1.5 pixels), their      *)
(* objx and objy are in 1/16 of a cell.  The snapping override             *)
(* (globals_.OverrideSnapping, autoPosChange) is off; sprites show their   *)
(* images, whose offset is (0, 0).                                         *)
(***************************************************************************)
\* EntranceItem.__init__ (line 2402), SpriteItem.__init__ (lines 1735-1738)
NewItem(kind, x, y) ==
    [kind |-> kind, objx |-> x, objy |-> y,
     posx |-> 2 * Trunc(3 * x, 2), posy |-> 2 * Trunc(3 * y, 2),
     dragoffsetx |-> 0, dragoffsety |-> 0, selected |-> FALSE]

\* lines 294-295: int(int((x + 0.75) / 1.5) * 1.5)
AltSnap(X) == 2 * Trunc(3 * Trunc(2 * X + 3, 6), 2)

\* lines 2061-2062: int((x + 0.75) / 1.5) * 1.5
SpriteAltSnap(X) == 3 * Trunc(2 * X + 3, 6)

\* lines 299-307 (2070-2078): the 8-grid shifted by the drag offset d
OffsetSnap8(X, d) ==
    LET d1 == IF d < -12 THEN d + 12 ELSE d
        d2 == IF d1 = 0 THEN -12 ELSE d1
    IN 2 * (Trunc(X + 2 * (6 + 12 + d2), 24) * 12 - (12 + d2))

\* lines 310-316 (2081-2087): the 24-grid shifted by the drag offset d
OffsetSnap24(X, d) ==
    LET d1 == IF d = 0 THEN -24 ELSE d
    IN 2 * (Trunc(X + 2 * (12 + 24 + d1), 48) * 24 - (24 + d1))

\* lines 319-320 (2090-2091): int(int((x + 6) / 12) * 12)
GridSnap8(X) == 2 * (Trunc(X + 12, 24) * 12)

\* lines 326-329 (2097-2100): the level bounds, max in pixels
ClampTo(X, max) == IF X < 0 THEN 0 ELSE IF X > 2 * max THEN 2 * max ELSE X

ObjectsSelected(mw) == mw.CurrentSelection \cap DOMAIN objs # {}

\* lines 286-329 and 2057-2100: the position returned on one axis for the
\* requested position X of the item it, whose drag offset on the axis is d
ItemSnap(it, mw, alt, d, X, max) ==
    ClampTo(IF alt
            THEN (IF it.kind = "sprite" THEN SpriteAltSnap(X) ELSE AltSnap(X))
            ELSE IF ~ObjectsSelected(mw) /\ it.selected
                    /\ Cardinality(mw.CurrentSelection) > 1
            THEN OffsetSnap8(X, d)
            ELSE IF ObjectsSelected(mw) /\ it.selected
            THEN OffsetSnap24(X, d)
            ELSE GridSnap8(X),
            max)

ItemSnapX(it, mw, alt, X) == ItemSnap(it, mw, alt, it.dragoffsetx, X, 24552)
ItemSnapY(it, mw, alt, Y) == ItemSnap(it, mw, alt, it.dragoffsety, Y, 12264)

\* QGraphicsItem.setPos(X, Y) on an entrance or a sprite in the scene, with
\* itemChange (lines 277-372, 2041-2147): the item afterwards and whether its
\* objx or objy changed (lines 332-334: int(newpos.x() / 1.5))
ItemSetPos(it, mw, alt, X, Y) ==
    IF X = it.posx /\ Y = it.posy THEN [obj |-> it, changed |-> FALSE]
    ELSE LET nx == ItemSnapX(it, mw, alt, X)
             ny == ItemSnapY(it, mw, alt, Y)
         IN [obj |-> [it EXCEPT !.posx = nx, !.posy = ny,
                                !.objx = Trunc(nx, 3), !.objy = Trunc(ny, 3)],
             changed |-> Trunc(nx, 3) # it.objx \/ Trunc(ny, 3) # it.objy]

ItemMoveUndoFinalOnly(mw, cells, id, oldx, oldy, x, y) ==
    SetDirty(IF Cardinality(mw.CurrentSelection) = 1
             THEN [mw EXCEPT !.undoStack =
                      addOrExtendAction(mw.undoStack, MoveItemUndoAction(id, x, y, x, y))]
             ELSE mw)

\* lines 350-368: the undo stack and the dirty flag after the entrance id
\* changed its cell; cells holds the objx and objy of the selected items
ItemMoveUndo(mw, cells, id, oldx, oldy, x, y) ==
    SetDirty(
       IF Cardinality(mw.CurrentSelection) = 1
       THEN [mw EXCEPT !.undoStack =
                addOrExtendAction(mw.undoStack, MoveItemUndoAction(id, oldx, oldy, x, y))]
       ELSE IF Cardinality(mw.CurrentSelection) > 1
       THEN [mw EXCEPT !.undoStack =
                addOrExtendAction(mw.undoStack,
                   SimultaneousUndoAction(
                      {MoveItemUndoAction(id, oldx, oldy, x, y)} \cup
                      {MoveItemUndoAction(j, cells[j][1], cells[j][2], cells[j][1], cells[j][2]) :
                          j \in mw.CurrentSelection \ {id}}))]
       ELSE mw)

\* lines 2136-2143: the undo stack and the dirty flag after the sprite id
\* changed its cell
SpriteMoveUndo(mw, id, oldx, oldy, x, y) ==
    SetDirty(IF Cardinality(mw.CurrentSelection) = 1
             THEN [mw EXCEPT !.undoStack =
                      addOrExtendAction(mw.undoStack,
                                        MoveItemUndoAction(id, oldx, oldy, x, y))]
             ELSE mw)

(***************************************************************************)
(* Dragging the selection (QGraphicsItem.mouseMoveEvent): every selected   *)
(* item is sent to its position at the press plus the way of the pointer,  *)
(* one item after the other; a drag state st carries the objects, the      *)
(* items, the main window and the number of cell changes.                  *)
(***************************************************************************)
MoveOne(st, id, dx, dy) ==
    IF id \in DOMAIN st.objs
    THEN LET o == st.objs[id]
             r == ObjectSetPos(o, pointer.start[id][1] + dx, pointer.start[id][2] + dy)
         IN [st EXCEPT !.objs[id] = r.obj,
                       !.mw = IF r.changed
                              THEN ObjectMoveUndo(@, id, o.objx, o.objy,
                                                  r.obj.objx, r.obj.objy)
                              ELSE @,
                       !.notified = IF r.changed
                                    THEN @ \cup PositionChanged(o, id, o.objx, o.objy,
                                                                r.obj.objx, r.obj.objy)
                                    ELSE @,
                       !.accepted = IF r.changed THEN @ + 1 ELSE @]
    ELSE LET it == st.items[id]
             r == ItemSetPos(it, st.mw, pointer.alt,
                             pointer.start[id][1] + 2 * dx, pointer.start[id][2] + 2 * dy)
         IN [st EXCEPT !.items[id] = r.obj,
                       !.mw = IF ~r.changed THEN @
                              ELSE IF it.kind = "sprite"
                              THEN SpriteMoveUndo(@, id, it.objx, it.objy,
                                                  r.obj.objx, r.obj.objy)
                              ELSE ItemMoveUndo(@, Cells(st.objs, st.items,
                                                         st.mw.CurrentSelection),
                                                id, it.objx, it.objy,
                                                r.obj.objx, r.obj.objy),
                       \* lines 348-349, 2132-2133: the entrances and sprites
                       \* of a level have their callbacks (reggie.py lines
                       \* 3178-3187)
                       !.notified = IF r.changed
                                    THEN @ \cup {<<id, it.objx, it.objy,
                                                   r.obj.objx, r.obj.objy>>}
                                    ELSE @,
                       !.accepted = IF r.changed THEN @ + 1 ELSE @]

RECURSIVE MoveAll(_, _, _, _)
MoveAll(st, order, dx, dy) ==
    IF order = <<>> THEN st
    ELSE MoveAll(MoveOne(st, Head(order), dx, dy), Tail(order), dx, dy)

\* the orders in which the items of S may be visited
Orders(S) ==
    {f \in [1..Cardinality(S) -> S] :
        \A i, j \in 1..Cardinality(S) : f[i] = f[j] => i = j}

\* the way of the pointer since the press, in whole pixels
PointerWay(s, press) == Trunc(s - press, 100)

\* QGraphicsItem.mouseMoveEvent (line 1201, and the entrances and sprites,
\* which do not override it): the selection is dragged
DragMove(sx, sy) ==
    /\ \E order \in Orders(DOMAIN pointer.start) :
       \E st \in {MoveAll([objs |-> objs, items |-> items, mw |-> mainWindow,
                           notified |-> {}, accepted |-> pointer.accepted],
                          order, PointerWay(sx, pointer.pressx),
                          PointerWay(sy, pointer.pressy))} :
          /\ objs' = st.objs
          /\ items' = st.items
          /\ mainWindow' = st.mw
          /\ pointer' = [pointer EXCEPT !.x = sx, !.y = sy, !.events = @ + 1,
                                        !.accepted = st.accepted]
          /\ lastOp' = [op |-> "mouseMoveEvent", obj |-> pointer.item,
                        special |-> FALSE, anchor |-> None, notified |-> st.notified]
    /\ UNCHANGED <<Area, globals_, choices>>

\* mouseMoveEvent of the item under the pressed button, the pointer being at
\* the scene position (sx, sy): ObjectItem.mouseMoveEvent (lines 943-1206)
\* resizes while the object is dragging
mouseMoveEvent(sx, sy) ==
    /\ pointer.down
    /\ pointer.events < MaxEvents
    /\ IF pointer.item \in DOMAIN objs /\ objs[pointer.item].dragging
       THEN ResizeMove(sx, sy)
       ELSE DragMove(sx, sy)

\* mouseReleaseEvent of the item under the pressed button:
\* ObjectItem.mouseReleaseEvent (lines 1215-1223) clears the grabbed flags
mouseReleaseEvent ==
    /\ pointer.down
    /\ objs' = IF pointer.item \in DOMAIN objs
               THEN [objs EXCEPT ![pointer.item].grabbed = {}]
               ELSE objs
    /\ pointer' = [PointerUp EXCEPT !.events = pointer.events, !.alt = pointer.alt]
    /\ lastOp' = [op |-> "mouseReleaseEvent", obj |-> pointer.item,
                  special |-> FALSE, anchor |-> None, notified |-> {}]
    /\ UNCHANGED <<Area, globals_, items, choices, mainWindow>>

Drags == {-MaxDrag, 0, MaxDrag}

NextResize ==
    \/ SelectAll
    \/ \E id \in DOMAIN objs : \E pt \in PressPoints(objs[id]) :
          mousePressEvent(id, pt[1], pt[2])
    \/ \E dcx \in Drags, dcy \in Drags :
          mouseMoveEvent(pointer.pressx + 2400 * dcx, pointer.pressy + 2400 * dcy)
    \/ mouseReleaseEvent

SpecResize == InitResize /\ [][NextResize]_vars

(***************************************************************************)
(* Dragging a selection of an object, an entrance and a sprite.            *)
(***************************************************************************)
InitSnap ==
    /\ globals_ = AllLoaded
    /\ \E r1 \in ObjectItem(globals_, 0, 5, 1, 1, 0, 1, 1, 8192) :
          objs = (1 :> AddToScene(r1.obj))
    /\ items = (3 :> NewItem("entrance", 18, 16)) @@ (4 :> NewItem("sprite", 8, 8))
    /\ choices = {}
    /\ lastOp = [op |-> "init", obj |-> 0, special |-> FALSE, anchor |-> None,
                 notified |-> {}]
    /\ pointer = PointerUp
    /\ mainWindow = NewMainWindow
    /\ Area = [layers |-> <<<<>>, AsList([i \in 1..Cardinality(DOMAIN objs) |-> i]), <<>>>>]

\* the Alt key goes down or up
AltKey ==
    /\ ~pointer.down
    /\ pointer' = [pointer EXCEPT !.alt = ~@]
    /\ lastOp' = [op |-> "AltKey", obj |-> 0, special |-> FALSE, anchor |-> None,
                  notified |-> {}]
    /\ UNCHANGED <<Area, globals_, objs, items, choices, mainWindow>>

\* mousePressEvent of an entrance or a sprite with the left button and
\* without Ctrl (line 2166: QGraphicsItem.mousePressEvent), at its position
itemPressEvent(id) ==
    /\ ~pointer.down
    /\ id \in DOMAIN items
    /\ pointer.events < MaxEvents
    /\ LET S == IF items[id].selected THEN mainWindow.CurrentSelection ELSE {id}
       IN /\ objs' = IF items[id].selected THEN objs ELSE SelectedObjs(S)
          /\ items' = IF items[id].selected THEN items ELSE SelectedItems(S)
          /\ mainWindow' = [mainWindow EXCEPT !.CurrentSelection = S]
          /\ pointer' = Pressed(id, 50 * items[id].posx, 50 * items[id].posy,
                                0, 0, objs, items, S)
    /\ lastOp' = [op |-> "mousePressEvent", obj |-> id, special |-> FALSE,
                  anchor |-> None, notified |-> {}]
    /\ UNCHANGED <<Area, globals_, choices>>

\* the ways of the pointer tried, in pixels
DragWays == {<<-48, 0>>, <<0, 0>>, <<5, 0>>, <<12, 0>>, <<24, 24>>}

\* the selections made with the rubber band: two items or more
RubberBands == {S \in SUBSET (DOMAIN objs \cup DOMAIN items) : Cardinality(S) > 1}

NextSnap ==
    \/ \E S \in RubberBands : ChangeSelectionHandler(S)
    \/ AltKey
    \/ \E id \in DOMAIN objs :
          mousePressEvent(id, 1200 * objs[id].width, 1200 * objs[id].height)
    \/ \E id \in DOMAIN items : itemPressEvent(id)
    \/ \E way \in DragWays :
          mouseMoveEvent(pointer.pressx + 100 * way[1], pointer.pressy + 100 * way[2])
    \/ mouseReleaseEvent

SpecSnap == InitSnap /\ [][NextSnap]_vars

(***************************************************************************)
(* Resizing at the level bounds: one object whose origin is one cell from  *)
(* the right and bottom bounds (cells 1024 and 512) or one cell from the   *)
(* left and top bounds, the pointer moving by up to MaxDrag + 2 cells in   *)
(* one event.                                                              *)
(***************************************************************************)
InitEdge ==
    /\ globals_ = AllLoaded
    /\ \E org \in {<<1023, 511>>, <<1, 1>>} :
          \E r1 \in ObjectItem(globals_, 0, 5, 1, org[1], org[2], 3, 3, 8192) :
             objs = (1 :> AddToScene(r1.obj))
    /\ items = EmptyMap
    /\ choices = {}
    /\ lastOp = [op |-> "init", obj |-> 0, special |-> FALSE, anchor |-> None,
                 notified |-> {}]
    /\ pointer = PointerUp
    /\ mainWindow = NewMainWindow
    /\ Area = [layers |-> <<<<>>, AsList([i \in 1..Cardinality(DOMAIN objs) |-> i]), <<>>>>]

NextEdge ==
    \/ SelectAll
    \/ \E id \in DOMAIN objs : \E pt \in PressPoints(objs[id]) :
          mousePressEvent(id, pt[1], pt[2])
    \/ \E dcx, dcy \in {-1, 0, 1, MaxDrag + 2} :
          mouseMoveEvent(pointer.pressx + 2400 * dcx, pointer.pressy + 2400 * dcy)
    \/ mouseReleaseEvent

SpecEdge == InitEdge /\ [][NextEdge]_vars

\* ---- the hit regions of the eight grabbers ----

\* the corners, the edge midpoints and the centre of each of the eight
\* rectangles mousePressEvent tests (lines 887-894), in 1/100 px
GrabPoints(o) ==
    UNION { { <<GrabberRect(o, a).x + i * (GrabberRect(o, a).w \div 2),
                GrabberRect(o, a).y + j * (GrabberRect(o, a).h \div 2)>> :
              i \in 0..2, j \in 0..2 } : a \in Anchors }

\* a 5x4 object (grabbersize 4.8 + 20 * 0.01 = 5.0 px) and a 2x1 object
InitGrab ==
    /\ globals_ = AllLoaded
    /\ \E r1 \in ObjectItem(globals_, 0, 5, 1, 2, 2, 5, 4, 8192),
          r2 \in ObjectItem(globals_, 1, 5, 1, 10, 10, 2, 1, 8193) :
          objs = (1 :> AddToScene(r1.obj)) @@ (2 :> AddToScene(r2.obj))
    /\ items = EmptyMap
    /\ choices = {}
    /\ lastOp = [op |-> "init", obj |-> 0, special |-> FALSE, anchor |-> None,
                 notified |-> {}]
    /\ pointer = PointerUp
    /\ mainWindow = NewMainWindow
    /\ Area = [layers |-> <<<<>>, <<1, 2>>, <<>>>>]

NextGrab ==
    \/ SelectAll
    \/ \E id \in DOMAIN objs : \E pt \in GrabPoints(objs[id]) :
          mousePressEvent(id, pt[1], pt[2])
    \/ mouseReleaseEvent

SpecGrab == InitGrab /\ [][NextGrab]_vars

\* ---- gestures of the advancing anchors with the pointer left of or ----
\* ---- above the driving object                                      ----

\* the pointer moves in half cells from the place of the press: two and a
\* half cells left or up takes it past the origin of the driving object
\* (clickedx, clickedy below 0 before the clamps of lines 1082-1083, 1164,
\* 1183)
NextAdvance ==
    \/ SelectAll
    \/ \E id \in DOMAIN objs :
       \E pt \in {q \in PressPoints(objs[id]) :
                    GrabbedAt(objs[id], q[1], q[2]) \in {{"BR"}, {"MB"}, {"MR"}}} :
          mousePressEvent(id, pt[1], pt[2])
    \/ \E hx, hy \in {-5, 0, 2} :
          mouseMoveEvent(pointer.pressx + 1200 * hx, pointer.pressy + 1200 * hy)
    \/ mouseReleaseEvent

SpecAdvance == InitResize /\ [][NextAdvance]_vars

(***************************************************************************)
(* The layers of the area: objects are placed, cloned with Ctrl + click,   *)
(* pasted, moved to another layer and deleted.  New objects are of         *)
(* tileset 0, which has no randomisation metadata.                         *)
(***************************************************************************)
\* the identity of the next object created
NewId ==
    1 + (CHOOSE m \in DOMAIN objs \cup DOMAIN items \cup {0} :
            \A n \in DOMAIN objs \cup DOMAIN items : m >= n)

\* reggie.py lines 2147-2151 (1844-1848, 3556-3559): the z value of an
\* object appended to the layer
NextZ(os, area, layer) ==
    LET layer_list == area.layers[layer + 1]
    IN IF Len(layer_list) = 0 THEN (2 - layer) * 8192
       ELSE os[layer_list[Len(layer_list)]].z + 1

\* ReggieWindow.CreateObject: the objects and the area with the new object
\* id, which is in the layer list and has its callback only with
\* add_to_scene
CreateObject(g, os, area, id, tileset, object_num, layer, x, y, width, height, add_to_scene) ==
    { [objs |-> (id :> (IF add_to_scene THEN AddToScene(r.obj) ELSE r.obj)) @@ os,
       Area |-> IF add_to_scene
                THEN [area EXCEPT !.layers[layer + 1] = Append(@, id)]
                ELSE area,
       log |-> r.log] :
        r \in ObjectItem(g, tileset, object_num, layer, x, y, width, height,
                         NextZ(os, area, layer)) }

\* Area.RemoveFromLayer(obj): obj leaves the sequence of its layer
RemoveFromLayer(area, os, id) ==
    [area EXCEPT !.layers[os[id].layer + 1] = ListRemove(@, id)]

\* the level view places an object of one cell with CreateObject
PaintObject(layer) ==
    /\ ~pointer.down
    /\ pointer.events < MaxEvents
    /\ Cardinality(DOMAIN objs) < MaxObjs
    /\ \E r \in CreateObject(globals_, objs, Area, NewId, 0, 5, layer, 2, 2, 1, 1, TRUE) :
          /\ objs' = r.objs
          /\ Area' = r.Area
          /\ choices' = r.log
    /\ pointer' = [pointer EXCEPT !.events = @ + 1]
    /\ mainWindow' = SetDirty(mainWindow)
    /\ lastOp' = [op |-> "CreateObject", obj |-> NewId, special |-> FALSE, anchor |-> None,
                  notified |-> {}]
    /\ UNCHANGED <<globals_, items>>

\* ObjectItem.mousePressEvent with the left button and Ctrl, at the item
\* position (px, py): lines 871-885 clone the object, the rest of the
\* handler follows; QGraphicsItem.mousePressEvent leaves the selection alone
\* when Ctrl is down
mousePressEventCtrl(id, px, py) ==
    /\ ~pointer.down
    /\ id \in DOMAIN objs
    /\ <<px, py>> \in PressPoints(objs[id])
    /\ pointer.events < MaxEvents
    /\ Cardinality(DOMAIN objs) < MaxObjs
    /\ LET o == objs[id]
           new_item == NewId
       IN \E r \in CreateObject(globals_, objs, Area, new_item, o.tileset, o.type,
                                o.layer, o.objx, o.objy, o.width, o.height, TRUE) :
          \E newZ \in {r.objs[new_item].z} :
          \E os \in {[i \in DOMAIN r.objs |->
                        [r.objs[i] EXCEPT !.z = IF i = new_item THEN o.z
                                                ELSE IF i = id THEN newZ ELSE @,
                                          !.selected = (i = id)]]} :
             /\ objs' = [os EXCEPT ![id] =
                           IF GrabbedAt(o, px, py) # {}
                           THEN [@ EXCEPT !.grabbed = GrabbedAt(o, px, py),
                                          !.dragging = TRUE,
                                          !.dragstartx = Trunc(px - 1000, 2400),
                                          !.dragstarty = Trunc(py - 1000, 2400),
                                          !.objsDragging =
                                             [sid \in {id} |-> <<o.width, o.height>>]]
                           ELSE [@ EXCEPT !.grabbed = {},
                                          !.dragging = FALSE,
                                          !.objsDragging = EmptyMap]]
             /\ items' = SelectedItems({id})
             /\ Area' = r.Area
             /\ choices' = r.log
             /\ mainWindow' = [SetDirty(mainWindow) EXCEPT !.CurrentSelection = {id}]
             /\ pointer' = Pressed(id, 100 * o.posx + px, 100 * o.posy + py,
                                   Trunc(px - 1000, 2400), Trunc(py - 1000, 2400),
                                   os, items, {id})
    /\ lastOp' = [op |-> "mousePressEventCtrl", obj |-> id, special |-> FALSE,
                  anchor |-> ActiveAnchor(GrabbedAt(objs[id], px, py)), notified |-> {}]
    /\ UNCHANGED globals_

\* the objects of ids sorted by their z values (change.sort, line 3554)
SortedByZ(os, ids) ==
    {order \in Orders(ids) :
        \A i, j \in 1..Cardinality(ids) : i < j => os[order[i]].z <= os[order[j]].z}

\* the loop of lines 3567-3575 without newLayer.append(item)
RECURSIVE ChangeLayersNoAppend(_, _, _, _, _)
ChangeLayersNoAppend(os, area, order, nl, z) ==
    IF order = <<>> THEN [objs |-> os, Area |-> area]
    ELSE ChangeLayersNoAppend([os EXCEPT ![Head(order)].layer = nl, ![Head(order)].z = z],
                              RemoveFromLayer(area, os, Head(order)),
                              Tail(order), nl, z + 1)

\* the loop of lines 3567-3575 over the objects of order
RECURSIVE ChangeLayers(_, _, _, _, _)
ChangeLayers(os, area, order, nl, z) ==
    IF order = <<>> THEN [objs |-> os, Area |-> area]
    ELSE ChangeLayers([os EXCEPT ![Head(order)].layer = nl, ![Head(order)].z = z],
                      [RemoveFromLayer(area, os, Head(order))
                          EXCEPT !.layers[nl + 1] = Append(@, Head(order))],
                      Tail(order), nl, z + 1)

\* ReggieWindow.LayerChoiceChanged(nl) with Alt down: the selected objects
\* move to the layer nl
LayerChoiceChanged(nl) ==
    /\ ~pointer.down
    /\ pointer.events < MaxEvents
    /\ \E order \in SortedByZ(objs, {id \in Selected : objs[id].layer # nl}) :
       \E r \in {ChangeLayers(objs, Area, order, nl, NextZ(objs, Area, nl))} :
          /\ objs' = r.objs
          /\ Area' = r.Area
    /\ pointer' = [pointer EXCEPT !.events = @ + 1]
    /\ mainWindow' = SetDirty(mainWindow)
    /\ lastOp' = [op |-> "LayerChoiceChanged", obj |-> nl, special |-> FALSE,
                  anchor |-> None, notified |-> {}]
    /\ UNCHANGED <<globals_, items, choices>>

\* obj.delete() for the objects of ids
RECURSIVE DeleteAll(_, _, _)
DeleteAll(area, os, ids) ==
    IF ids = {} THEN area
    ELSE LET id == CHOOSE i \in ids : TRUE
         IN DeleteAll(RemoveFromLayer(area, os, id), os, ids \ {id})

\* ReggieWindow.keyPressEvent with the Delete key (reggie.py lines
\* 3962-3975): the selected items are deleted
keyPressEvent ==
    /\ ~pointer.down
    /\ pointer.events < MaxEvents
    /\ Selected # {} \/ \E i \in DOMAIN items : items[i].selected
    /\ Area' = DeleteAll(Area, objs, Selected)
    /\ objs' = [id \in DOMAIN objs \ Selected |-> objs[id]]
    /\ items' = [i \in {j \in DOMAIN items : ~items[j].selected} |-> items[i]]
    \* lines 3965-3974: SelectionUpdateFlag set, cleared, then
    \* ChangeSelectionHandler
    /\ mainWindow' = [SetDirty(mainWindow) EXCEPT !.SelectionUpdateFlag = FALSE,
                                                  !.CurrentSelection = {}]
    /\ pointer' = [pointer EXCEPT !.events = @ + 1]
    /\ lastOp' = [op |-> "keyPressEvent", obj |-> 0, special |-> FALSE, anchor |-> None,
                  notified |-> {}]
    /\ UNCHANGED <<globals_, choices>>

\* reggie.py lines 1841-1875: the objects of layer 0 are appended first,
\* then those of layer 1, then those of layer 2
ClipOrder(clip) ==
    SelectSeq(clip, LAMBDA l : l = 0) \o SelectSeq(clip, LAMBDA l : l = 1)
        \o SelectSeq(clip, LAMBDA l : l = 2)

\* one object of the clip: created (getEncodedObjects, line 1962), appended
\* to its layer with the next z value, sent to its place (line 1908) while
\* CurrentSelection is still the selection before the paste, and selected
PasteOne(st, layer, id, xoffset) ==
    { LET p == ObjectSetPos(r.objs[id], (2 + xoffset) * 24, 2 * 24)
      IN [objs |-> [r.objs EXCEPT ![id] = [p.obj EXCEPT !.selected = TRUE]],
          Area |-> [r.Area EXCEPT !.layers[layer + 1] = Append(@, id)],
          mw |-> IF p.changed
                 THEN ObjectMoveUndo(st.mw, id, 2, 2, p.obj.objx, p.obj.objy)
                 ELSE st.mw,
          notified |-> IF p.changed
                       THEN st.notified \cup
                            PositionChanged(r.objs[id], id, 2, 2, p.obj.objx, p.obj.objy)
                       ELSE st.notified,
          log |-> r.log] :
        r \in CreateObject(globals_, st.objs, st.Area, id, 0, 5, layer, 2, 2, 1, 1,
                            FALSE) }

RECURSIVE PasteAll(_, _, _, _)
PasteAll(st, order, id, xoffset) ==
    IF order = <<>> THEN {st}
    ELSE UNION { PasteAll(n, Tail(order), id + 1, xoffset) :
                    n \in PasteOne(st, Head(order), id, xoffset) }

\* ReggieWindow.placeEncodedObjects (reggie.py lines 1782-1916) for a clip of
\* objects, xoffset cells being the way to the middle of the view
placeEncodedObjects(clip, xoffset) ==
    /\ ~pointer.down
    /\ pointer.events < MaxEvents
    \* result: the answer to the warning of line 1806, asked for a clip of
    \* more than 300 entries
    \* (the clipboard Paste hands over was made by encodeObjects or accepted
    \* by TrackClipboardUpdates, lines 1353-1355, so the test of line 1801
    \* passes)
    /\ \E result \in IF Len(clip) > 300 THEN {"Yes", "No"} ELSE {"Yes"} :
         IF result = "No"
         THEN \* the return of line 1807, after lines 1786-1796
              /\ objs' = SelectedObjs({})
              /\ mainWindow' = [mainWindow EXCEPT !.SelectionUpdateFlag = TRUE]
              /\ globals_' = [globals_ EXCEPT !.OverrideSnapping = TRUE]
              /\ lastOp' = [op |-> "placeEncodedObjects", obj |-> 0,
                            special |-> FALSE, anchor |-> None, notified |-> {}]
              /\ UNCHANGED <<Area, choices>>
         ELSE /\ Cardinality(DOMAIN objs) + Len(clip) <= MaxObjs
              /\ \E st \in PasteAll([objs |-> SelectedObjs({}), Area |-> Area,
                                     mw |-> mainWindow, notified |-> {}, log |-> {}],
                                    ClipOrder(clip), NewId, xoffset) :
                    /\ objs' = st.objs
                    /\ Area' = st.Area
                    /\ choices' = st.log
                    \* lines 1909-1914: both flags cleared, then
                    \* ChangeSelectionHandler
                    /\ mainWindow' = [SetDirty(st.mw) EXCEPT
                                         !.SelectionUpdateFlag = FALSE,
                                         !.CurrentSelection =
                                             NewId..(NewId + Len(clip) - 1)]
                    /\ lastOp' = [op |-> "placeEncodedObjects", obj |-> NewId,
                                  special |-> FALSE, anchor |-> None,
                                  notified |-> st.notified]
              /\ globals_' = [globals_ EXCEPT !.OverrideSnapping = FALSE]
    /\ items' = SelectedItems({})
    /\ pointer' = [pointer EXCEPT !.events = @ + 1]

NextLayers ==
    \/ \E layer \in 0..2 : PaintObject(layer)
    \/ SelectAll
    \* at the centre of the bottom-right grabber and of the object
    \/ \E id \in DOMAIN objs :
       \E pt \in {q \in PressPoints(objs[id]) :
                    GrabbedAt(objs[id], q[1], q[2]) \in {{"BR"}, {}}} :
          mousePressEventCtrl(id, pt[1], pt[2])
    \/ mouseReleaseEvent
    \/ \E nl \in 0..2 : LayerChoiceChanged(nl)
    \/ keyPressEvent
    \* the clipboards pasted: one or two objects of one cell at (2, 2), each
    \* named by its layer
    \/ \E clip \in {<<0>>, <<1>>, <<2, 0>>}, xoffset \in {0, 1} :
          placeEncodedObjects(clip, xoffset)

SpecLayers == InitResize /\ [][NextLayers]_vars

(***************************************************************************)
(* Shifting the selection (ReggieWindow.ShiftItems): every selected item   *)
(* is sent to its position plus the offset while                           *)
(* globals_.OverrideSnapping is set.                                       *)
(***************************************************************************)
\* itemChange of an entrance or a sprite that ignores OverrideSnapping
ItemChangeSnapping(OverrideSnapping, it, mw, alt, X, Y) ==
    <<ItemSnapX(it, mw, alt, X), ItemSnapY(it, mw, alt, Y)>>

\* lines 282-329 and 2057-2100: the position itemChange returns for the
\* requested position (X, Y) of the entrance or sprite it; the snapping is
\* skipped while OverrideSnapping is set (lines 288, 2062)
ItemChange(OverrideSnapping, it, mw, alt, X, Y) ==
    IF ~OverrideSnapping
    THEN <<ItemSnapX(it, mw, alt, X), ItemSnapY(it, mw, alt, Y)>>
    ELSE <<ClampTo(X, 24552), ClampTo(Y, 12264)>>

\* obj.setPos(obj.x() + xpoffset, obj.y() + ypoffset) (reggie.py line 2026)
\* for the selected item id, the offsets being in 1/16 of a cell
ShiftOne(st, id, alt, xoffset, yoffset) ==
    IF id \in DOMAIN st.objs
    THEN LET o == st.objs[id]
             r == ObjectSetPos(o, o.posx + (3 * xoffset) \div 2,
                               o.posy + (3 * yoffset) \div 2)
         IN [st EXCEPT !.objs[id] = r.obj,
                       !.mw = IF r.changed
                              THEN ObjectMoveUndo(@, id, o.objx, o.objy,
                                                  r.obj.objx, r.obj.objy)
                              ELSE @,
                       !.notified = IF r.changed
                                    THEN @ \cup PositionChanged(o, id, o.objx, o.objy,
                                                                r.obj.objx, r.obj.objy)
                                    ELSE @]
    ELSE LET it == st.items[id]
             X == it.posx + 3 * xoffset
             Y == it.posy + 3 * yoffset
             n == ItemChange(TRUE, it, st.mw, alt, X, Y)
             x == Trunc(n[1], 3)
             y == Trunc(n[2], 3)
             changed == x # it.objx \/ y # it.objy
         IN IF X = it.posx /\ Y = it.posy THEN st
            ELSE [st EXCEPT !.items[id] = [it EXCEPT !.posx = n[1], !.posy = n[2],
                                                     !.objx = x, !.objy = y],
                            !.mw = IF ~changed THEN @
                                   ELSE IF it.kind = "sprite"
                                   THEN SpriteMoveUndo(@, id, it.objx, it.objy, x, y)
                                   ELSE ItemMoveUndo(@, Cells(st.objs, st.items,
                                                              st.mw.CurrentSelection),
                                                     id, it.objx, it.objy, x, y),
                            !.notified = IF changed
                                         THEN @ \cup {<<id, it.objx, it.objy, x, y>>}
                                         ELSE @]

RECURSIVE ShiftAll(_, _, _, _, _)
ShiftAll(st, order, alt, xoffset, yoffset) ==
    IF order = <<>> THEN st
    ELSE ShiftAll(ShiftOne(st, Head(order), alt, xoffset, yoffset), Tail(order),
                  alt, xoffset, yoffset)

\* ReggieWindow.ShiftItems (reggie.py lines 1983-2030) with the offsets
\* entered in the dialog
ShiftItems(xoffset, yoffset) ==
    /\ ~pointer.down
    /\ pointer.events < MaxShifts
    /\ mainWindow.CurrentSelection # {}
    /\ xoffset # 0 \/ yoffset # 0
    /\ \E order \in Orders(mainWindow.CurrentSelection) :
       \E st \in {ShiftAll([objs |-> objs, items |-> items, mw |-> mainWindow,
                            notified |-> {}],
                           order, pointer.alt, xoffset, yoffset)} :
          /\ objs' = st.objs
          /\ items' = st.items
          /\ mainWindow' = SetDirty(st.mw)
          /\ lastOp' = [op |-> "ShiftItems", obj |-> 0, special |-> FALSE,
                        anchor |-> None, notified |-> st.notified,
                        offset |-> <<xoffset, yoffset>>]
    /\ pointer' = [pointer EXCEPT !.events = @ + 1]
    \* lines 2023-2028: OverrideSnapping set for the moves and cleared
    /\ globals_' = [globals_ EXCEPT !.OverrideSnapping = FALSE]
    /\ UNCHANGED <<Area, choices>>

\* the offsets entered: a part of a cell, a cell and a part, and a way out
\* of the level
ShiftOffsets == {<<2, 0>>, <<18, 4>>, <<-20, 0>>}

\* the selections shifted: an entrance, a sprite, both, and both with an
\* object
ShiftSelections == {{3}, {4}, {3, 4}, {1, 3, 4}}

NextShift ==
    \/ \E S \in ShiftSelections : ChangeSelectionHandler(S)
    \/ AltKey
    \/ \E off \in ShiftOffsets : ShiftItems(off[1], off[2])

SpecShift == InitSnap /\ [][NextShift]_vars

\* ---- pastes that return early ----

\* a clip of more than 300 entries (line 1803), all objects of layer 1
LargeClip == [i \in 1..301 |-> 1]

NextFlags ==
    \/ SelectAll
    \/ \E clip \in {<<1>>, LargeClip}, xoffset \in {0, 1} :
          placeEncodedObjects(clip, xoffset)
    \/ \E off \in ShiftOffsets : ShiftItems(off[1], off[2])
    \/ keyPressEvent

SpecFlags == InitResize /\ [][NextFlags]_vars

(***************************************************************************)
(* Properties of the tile grid.                                            *)
(***************************************************************************)
\* C1: after construction and after any sequence of SetType, full rebuilds
\* and resize steps, the grid has exactly `height` rows of exactly `width`
\* entries each.
GridShape ==
    \A id \in DOMAIN objs :
        /\ Len(objs[id].objdata) = objs[id].height
        /\ \A y \in 1..Len(objs[id].objdata) :
              Len(objs[id].objdata[y]) = objs[id].width

\* a resize step that grew the height of a randomised object through the
\* special-bottom-row path
GridShapeWitness ==
    /\ lastOp.op = "UpdateObj"
    /\ lastOp.special
    /\ objs[1].height = MaxH
    /\ objs[1].width > 1

\* C4 (as claimed): a resize step to the object's current width and height
\* leaves the content of its grid unchanged.
NoOpResizeKeepsGrid ==
    [][\A id \in DOMAIN objs :
         (/\ lastOp'.op = "UpdateObj"
          /\ lastOp'.obj = id
          /\ objs'[id].width = objs[id].width
          /\ objs'[id].height = objs[id].height)
         => objs'[id].objdata = objs[id].objdata]_vars

\* C5: every tile chosen for a cell whose direction mask has bit 0 set and
\* that has a left neighbour differs from the left neighbour's tile id,
\* unless the removal of the neighbours' ids emptied the candidate list.
LeftExclusion ==
    \A c \in choices :
        (c.leftChecked /\ ~c.emptied) => c.chosen # c.left

\* a choice in which the left neighbour's id was one of the candidates and
\* was removed before choosing
LeftExclusionWitness ==
    \E c \in choices :
        c.leftChecked /\ ~c.emptied /\ c.left \in c.candidates

\* the object has no randomisation metadata: randomise returns at once
MetadataAbsent(g, o) == NoRandInfo(g, o) \/ ~NameInInfo(g, o)

\* C10: without randomisation metadata the grid is, after construction and
\* after every resize step, the raw render at the committed width and
\* height.
RawRenderWhenNoMetadata ==
    \A id \in DOMAIN objs :
        MetadataAbsent(globals_, objs[id]) =>
            objs[id].objdata = RenderObject(globals_, objs[id].tileset, objs[id].type,
                                            objs[id].width, objs[id].height)

\* a resize step of an object without metadata whose render depends on its
\* width (the right cap of type 1)
RawRenderWitness ==
    /\ lastOp.op = "UpdateObj"
    /\ MetadataAbsent(globals_, objs[1])
    /\ globals_.ObjectDefinitions # None
    /\ objs[1].type = 1
    /\ objs[1].width = MaxW
    /\ objs[1].height > 1

(***************************************************************************)
(* Properties of the resize protocol.                                      *)
(***************************************************************************)
\* the grabbing object of a resize gesture in progress
Driver == objs[pointer.item]

Resizing(a) ==
    /\ pointer.down
    /\ pointer.item \in DOMAIN objs
    /\ Driver.dragging
    /\ ActiveAnchor(Driver.grabbed) = a

\* C2: during resize gestures on any anchor, with pointer moves of either
\* sign, the committed width and height of every object stay >= 1
MinimumSize ==
    \A id \in DOMAIN objs : objs[id].width >= 1 /\ objs[id].height >= 1

\* a pointer move has driven a participant's running size below 1 and the
\* participant is one cell high
MinimumSizeWitness ==
    /\ lastOp.op = "mouseMoveEvent"
    /\ \E a \in Anchors : Resizing(a)
    /\ \E p \in DOMAIN Driver.objsDragging :
          Driver.objsDragging[p][2] < 1 /\ objs[p].height = 1

\* the cell of the pointer as mouseMoveEvent computes it, relative to the
\* cell mousePressEvent computed at the press
PointerCellDX == Trunc(ItemX(Driver, pointer.x) - 1200, 2400) - pointer.cellx
PointerCellDY == Trunc(ItemY(Driver, pointer.y) - 1200, 2400) - pointer.celly

OriginKept ==
    [][(/\ \E a \in {"BR", "MB", "MR"} : Resizing(a)
        /\ lastOp'.op = "mouseMoveEvent")
       => \A id \in DOMAIN objs :
             objs'[id].objx = objs[id].objx /\ objs'[id].objy = objs[id].objy]_vars

\* the object at (10, 10) of size (3, 2) is (4, 3) after a move of its
\* bottom-right anchor and still at (10, 10)
OriginKeptWitness ==
    /\ Resizing("BR")
    /\ lastOp.op = "mouseMoveEvent"
    /\ pointer.item = 1
    /\ pointer.sizes[1] = <<3, 2>>
    /\ objs[1].width = 4 /\ objs[1].height = 3
    /\ objs[1].objx = 10 /\ objs[1].objy = 10

(***************************************************************************)
(* Properties of snapping and of the undo stack.                           *)
(***************************************************************************)
\* the selection is being dragged
DragMoving ==
    /\ pointer.down
    /\ ~(pointer.item \in DOMAIN objs /\ objs[pointer.item].dragging)

\* the entries of the undo stack made in the drag in progress
GestureRecords ==
    {i \in 1..Len(mainWindow.undoStack) :
        mainWindow.undoStack[i].gesture = pointer.gesture}

\* C6 (as stated): after a pointer move of a drag, the snap policy of every
\* dragged item, applied to the position it returned for the item, returns
\* that position again, at the level bounds too
SnapIdempotent ==
    (lastOp.op = "mouseMoveEvent" /\ DragMoving)
    => \A id \in DOMAIN pointer.start :
          IF id \in DOMAIN objs
          THEN <<objs[id].posx, objs[id].posy>> # pointer.start[id]
               => /\ ObjectSnap(objs[id].posx, objs[id].posy).posx = objs[id].posx
                  /\ ObjectSnap(objs[id].posx, objs[id].posy).posy = objs[id].posy
          ELSE <<items[id].posx, items[id].posy>> # pointer.start[id]
               => /\ ItemSnapX(items[id], mainWindow, pointer.alt, items[id].posx)
                        = items[id].posx
                  /\ ItemSnapY(items[id], mainWindow, pointer.alt, items[id].posy)
                        = items[id].posy

\* C7: while a single selected item is dragged and its cell has changed at
\* least once, the undo stack holds exactly one record of the drag: the move
\* of the item from its cell at the press to its current cell
UndoCoalesced ==
    (/\ DragMoving
     /\ mainWindow.CurrentSelection = {pointer.item}
     /\ pointer.accepted >= 1)
    => \E i \in 1..Len(mainWindow.undoStack) :
          /\ GestureRecords = {i}
          /\ mainWindow.undoStack[i].act =
                MoveItemUndoAction(pointer.item,
                    pointer.cells[pointer.item][1], pointer.cells[pointer.item][2],
                    Cells(objs, items, {pointer.item})[pointer.item][1],
                    Cells(objs, items, {pointer.item})[pointer.item][2])

\* three pointer moves have each changed the cell of the single dragged item
UndoCoalescedWitness ==
    /\ DragMoving
    /\ mainWindow.CurrentSelection = {pointer.item}
    /\ pointer.accepted = 3
    /\ Cardinality(GestureRecords) = 1

\* C8 (as stated): while several selected items are dragged and a cell has
\* changed, the undo stack holds exactly one record of the drag, a bundle
\* with a record for every selected item
CompositeRecord ==
    (/\ DragMoving
     /\ Cardinality(mainWindow.CurrentSelection) > 1
     /\ pointer.accepted >= 1)
    => \E i \in 1..Len(mainWindow.undoStack) :
          /\ GestureRecords = {i}
          /\ mainWindow.undoStack[i].act.kind = "multi"
          /\ {m.item : m \in mainWindow.undoStack[i].act.acts}
                = mainWindow.CurrentSelection

(***************************************************************************)
(* Properties of one resize step: a pointer move of a resize gesture, from *)
(* the state before it to the state after it.                              *)
(***************************************************************************)
\* the anchors whose branch changes the width (the height)
WidthAnchors == {"TL", "TR", "BL", "BR", "ML", "MR"}
HeightAnchors == {"TL", "TR", "BL", "BR", "MT", "MB"}

\* clickedx - dsx and clickedy - dsy of the step
StepDX == ClickedX(ActiveAnchor(Driver.grabbed), Driver, pointer'.x) - Driver.dragstartx
StepDY == ClickedY(ActiveAnchor(Driver.grabbed), Driver, pointer'.y) - Driver.dragstarty

\* lines 964-965, 1012-1013, 1053-1054, 1090-1091, 1113, 1140, 1171, 1190:
\* the entry of objsDragging of the participant p with the delta applied
DeltaWidth(a, p) ==
    IF a \in {"TR", "BR", "MR"} THEN Driver.objsDragging[p][1] + StepDX
    ELSE IF a \in WidthAnchors THEN Driver.objsDragging[p][1] - StepDX
    ELSE Driver.objsDragging[p][1]
DeltaHeight(a, p) ==
    IF a \in {"BL", "BR", "MB"} THEN Driver.objsDragging[p][2] + StepDY
    ELSE IF a \in HeightAnchors THEN Driver.objsDragging[p][2] - StepDY
    ELSE Driver.objsDragging[p][2]

\* the step is a pointer move of a resize gesture on the anchor a whose
\* branch acts
ResizeStepOn(a) ==
    /\ Resizing(a)
    /\ lastOp'.op = "mouseMoveEvent"
    /\ BranchActs(a, StepDX + Driver.dragstartx, StepDY + Driver.dragstarty,
                  Driver.dragstartx, Driver.dragstarty)

\* C11 (as stated): in a resize step whose delta would take the size of a
\* participant below 1 on an axis the anchor affects, the committed size of
\* the participant on that axis stays what it was before the step, on every
\* anchor
SticksBelowFloor ==
    [][\A a \in Anchors : ResizeStepOn(a) =>
          \A p \in DOMAIN Driver.objsDragging :
             /\ (a \in WidthAnchors /\ DeltaWidth(a, p) < 1)
                   => objs'[p].width = objs[p].width
             /\ (a \in HeightAnchors /\ DeltaHeight(a, p) < 1)
                   => objs'[p].height = objs[p].height]_vars

\* lines 982, 1068, 1151 (989, 1028, 1123): the delta of the participant p
\* on the axis is one its branch commits, the size staying at least 1 and
\* the opposite edge in place
WidthCommits(a, p) ==
    /\ DeltaWidth(a, p) >= 1
    /\ a \in {"TL", "BL", "ML"} =>
          OriginFits(objs[p].objx + StepDX, DeltaWidth(a, p), objs[p].objx, objs[p].width)
HeightCommits(a, p) ==
    /\ DeltaHeight(a, p) >= 1
    /\ a \in {"TL", "TR", "MT"} =>
          OriginFits(objs[p].objy + StepDY, DeltaHeight(a, p), objs[p].objy, objs[p].height)

\* C12 (as stated): in a resize step on a corner anchor in which exactly one
\* axis of a participant would fall below 1, the other axis of that
\* participant, and both axes of every other participant, are resized by
\* the delta as without the violation
OtherAxisResized ==
    [][\A a \in {"TL", "TR", "BL", "BR"} :
          (/\ ResizeStepOn(a)
           /\ \E p \in DOMAIN Driver.objsDragging :
                 (DeltaWidth(a, p) < 1) # (DeltaHeight(a, p) < 1))
          => \A q \in DOMAIN Driver.objsDragging :
                /\ WidthCommits(a, q) => objs'[q].width = DeltaWidth(a, q)
                /\ HeightCommits(a, q) => objs'[q].height = DeltaHeight(a, q)]_vars

\* C13 (as stated): whenever a resize step changes the origin of an object
\* on an axis, the opposite edge stays where it was: origin + size on that
\* axis is the same after the step as before it, at the level bounds too
OppositeEdgeFixed ==
    [][(/\ \E a \in Anchors : Resizing(a)
        /\ lastOp'.op = "mouseMoveEvent")
       => \A p \in DOMAIN objs :
             /\ objs'[p].objx # objs[p].objx
                   => objs'[p].objx + objs'[p].width = objs[p].objx + objs[p].width
             /\ objs'[p].objy # objs[p].objy
                   => objs'[p].objy + objs'[p].height = objs[p].objy + objs[p].height]_vars

\* C14 (as stated): when two successive pointer moves of a resize gesture
\* report the same scene position, the second one changes the width, height
\* and origin of no object, on every anchor, also when the grabbing object
\* could not be resized by the first
SamePositionNoChange ==
    [][(/\ \E a \in Anchors : Resizing(a)
        /\ lastOp.op = "mouseMoveEvent"
        /\ lastOp'.op = "mouseMoveEvent"
        /\ pointer'.x = pointer.x
        /\ pointer'.y = pointer.y)
       => \A p \in DOMAIN objs :
             /\ objs'[p].width = objs[p].width
             /\ objs'[p].height = objs[p].height
             /\ objs'[p].objx = objs[p].objx
             /\ objs'[p].objy = objs[p].objy]_vars

\* C15 (as stated): after pointer-up the object that had the pointer is
\* Idle: its dragging flag is false, its objsDragging is empty and none of
\* its eight grabbed flags is set
IdleAfterRelease ==
    (lastOp.op = "mouseReleaseEvent" /\ lastOp.obj \in DOMAIN objs)
    => /\ ~objs[lastOp.obj].dragging
       /\ DOMAIN objs[lastOp.obj].objsDragging = {}
       /\ objs[lastOp.obj].grabbed = {}

(***************************************************************************)
(* Properties of the pointer-down and of the layers.                       *)
(***************************************************************************)
\* C16 (as stated): a pointer-down on an object starts a resize gesture if
\* and only if the object is selected before it and the pointer is in one of
\* its eight grabbers; the participants are then exactly the objects
\* selected at the pointer-down, each with its width and height
ResizeStartsWhenSelected ==
    [][\A id \in DOMAIN objs :
          (/\ lastOp'.op \in {"mousePressEvent", "mousePressEventCtrl"}
           /\ lastOp'.obj = id) =>
          /\ objs'[id].dragging <=>
                StartsDragging(objs[id], ItemX(objs[id], pointer'.pressx),
                                         ItemY(objs[id], pointer'.pressy))
          /\ objs'[id].dragging =>
                /\ DOMAIN objs'[id].objsDragging = Selected
                /\ \A p \in Selected :
                      objs'[id].objsDragging[p] = <<objs[p].width, objs[p].height>>]_vars

\* C17 (as stated): after a pointer-down with Ctrl on an object, wherever on
\* the object, its dragging flag is false and its objsDragging is empty
CloneNeverResizes ==
    lastOp.op = "mousePressEventCtrl"
    => /\ ~objs[lastOp.obj].dragging
       /\ DOMAIN objs[lastOp.obj].objsDragging = {}

\* C18 (as stated, whichever of the two objects is taken for the clone): a
\* pointer-down with Ctrl on an object adds one object with the tileset,
\* type, layer, origin and size of the original; the original has the z
\* value the pressed object had, the clone is directly above it in z-order
\* and is the only selected item
CloneJustAbove ==
    [][\A id \in DOMAIN objs :
          (lastOp'.op = "mousePressEventCtrl" /\ lastOp'.obj = id) =>
          \E new \in DOMAIN objs' \ DOMAIN objs :
             /\ DOMAIN objs' = DOMAIN objs \cup {new}
             /\ \A f \in {"tileset", "type", "layer", "objx", "objy", "width", "height"} :
                   objs'[new][f] = objs[id][f] /\ objs'[id][f] = objs[id][f]
             /\ \E original, clone \in {id, new} :
                   /\ original # clone
                   /\ objs'[original].z = objs[id].z
                   /\ objs'[clone].z > objs'[original].z
                   /\ \A i \in DOMAIN objs' :
                         ~(objs'[original].z < objs'[i].z /\ objs'[i].z < objs'[clone].z)
                   /\ {i \in DOMAIN objs' : objs'[i].selected} = {clone}
                   /\ \A i \in DOMAIN items' : ~items'[i].selected]_vars

(***************************************************************************)
(* Properties of the layers.                                               *)
(***************************************************************************)
\* how often the object id occurs in the sequence of the layer
Occurrences(area, layer, id) ==
    Cardinality({i \in 1..Len(area.layers[layer + 1]) : area.layers[layer + 1][i] = id})

\* the objects whose layer field differs before and after the step
StepMoved == {id \in DOMAIN objs \cap DOMAIN objs' : objs'[id].layer # objs[id].layer}

\* C19: after any sequence of create, paste, clone, layer-change and delete
\* operations every object of the level occurs exactly once in the sequence
\* of the layer named by its layer field and in no other layer sequence; a
\* layer change takes each object it moves out of its old sequence and puts
\* it at the end of the new one, behind the objects that were there
OneLayerEach ==
    /\ \A id \in DOMAIN objs : \A layer \in 0..2 :
          Occurrences(Area, layer, id) = IF layer = objs[id].layer THEN 1 ELSE 0
    /\ [][/\ \A id \in DOMAIN objs' : \A layer \in 0..2 :
               Occurrences(Area', layer, id) = IF layer = objs'[id].layer THEN 1 ELSE 0
          /\ lastOp'.op = "LayerChoiceChanged" =>
               \A id \in StepMoved :
                  LET old == Area.layers[objs[id].layer + 1]
                      new == Area.layers[objs'[id].layer + 1]
                      new2 == Area'.layers[objs'[id].layer + 1]
                  IN /\ Occurrences(Area', objs[id].layer, id) = 0
                     /\ Len(new2) >= Len(new) + 1
                     /\ SubSeq(new2, 1, Len(new)) = new
                     /\ \E i \in (Len(new) + 1)..Len(new2) : new2[i] = id
                     /\ \A i \in (Len(new) + 1)..Len(new2) : new2[i] \in StepMoved]_vars

\* a layer change has moved two objects at once into a layer that already
\* held an object, after an object was created, pasted or cloned
OneLayerEachWitness ==
    /\ lastOp.op = "LayerChoiceChanged"
    /\ \E l \in 0..2 :
          /\ Len(Area.layers[l + 1]) >= 3
          /\ \E id \in DOMAIN objs : id >= 3 /\ objs[id].layer = l
          /\ \E i \in 2..Len(Area.layers[l + 1]) :
                Area.layers[l + 1][i] \in {1, 2} /\ objs[Area.layers[l + 1][i]].layer = l

(***************************************************************************)
(* Properties of position changes.                                         *)
(***************************************************************************)
\* the step drags the selection: a move of the pointer that does not resize
DragStep ==
    /\ pointer.down
    /\ pointer'.events = pointer.events + 1
    /\ ~(pointer.item \in DOMAIN objs /\ objs[pointer.item].dragging)

\* the position the step asks for the dragged item id: pixels for an
\* object, 1/2 pixels for an entrance or a sprite
AskedPos(id) ==
    LET k == IF id \in DOMAIN objs THEN 1 ELSE 2
    IN <<pointer.start[id][1] + k * PointerWay(pointer'.x, pointer.pressx),
         pointer.start[id][2] + k * PointerWay(pointer'.y, pointer.pressy)>>

\* the cell that snapping and clamping compute from the position asked for
\* the dragged item id
ComputedCell(id) ==
    IF id \in DOMAIN objs
    THEN <<ObjectSnap(AskedPos(id)[1], AskedPos(id)[2]).x,
           ObjectSnap(AskedPos(id)[1], AskedPos(id)[2]).y>>
    ELSE <<Trunc(ItemSnapX(items[id], mainWindow, pointer.alt, AskedPos(id)[1]), 3),
           Trunc(ItemSnapY(items[id], mainWindow, pointer.alt, AskedPos(id)[2]), 3)>>

\* objx and objy of the item id
CellOf(os, is, id) ==
    IF id \in DOMAIN os THEN <<os[id].objx, os[id].objy>>
    ELSE <<is[id].objx, is[id].objy>>

\* the dragged items for which the step computes the cell they are in
SameCell == {id \in DOMAIN pointer.start : ComputedCell(id) = CellOf(objs, items, id)}

\* C20: a position change whose cell, after snapping and clamping, is the
\* cell (objx, objy) the item is in changes nothing: objx and objy stay,
\* positionChanged is not called for the item (the calls of a drag step are
\* at most as many as the other items dragged), and a step in which no
\* item changes its cell adds no undo record, extends none and leaves the
\* dirty flag as it was
SameCellNoOp ==
    [][DragStep =>
         /\ \A id \in SameCell : CellOf(objs', items', id) = CellOf(objs, items, id)
         /\ pointer'.accepted <=
               pointer.accepted + Cardinality(DOMAIN pointer.start \ SameCell)
         /\ SameCell = DOMAIN pointer.start =>
               /\ mainWindow'.undoStack = mainWindow.undoStack
               /\ mainWindow'.Dirty = mainWindow.Dirty]_vars

\* a drag by less than half a cell came to an object and a sprite of a clean
\* level at a new position: itemChange ran for both, found them in their
\* cells, and the level is still clean
SameCellNoOpWitness ==
    /\ lastOp.op = "mouseMoveEvent"
    /\ pointer.down
    /\ pointer.x # pointer.pressx
    /\ DOMAIN pointer.start = {1, 4}
    /\ pointer.accepted = 0
    /\ ~mainWindow.Dirty
    /\ mainWindow.undoStack = <<>>

(***************************************************************************)
(* Properties of the notifications of committed changes.                   *)
(***************************************************************************)
\* the undo record act names the item id
Names(act, id) ==
    IF act.kind = "move" THEN act.item = id
    ELSE \E m \in act.acts : m.item = id

\* C21 (as stated): every resize step that commits a new size or a new
\* origin for a participant adds an undo record that names the participant
\* or extends one
ResizeRecorded ==
    [][\A a \in Anchors : ResizeStepOn(a) =>
          \A p \in DOMAIN Driver.objsDragging :
             <<objs'[p].objx, objs'[p].objy, objs'[p].width, objs'[p].height>>
                # <<objs[p].objx, objs[p].objy, objs[p].width, objs[p].height>>
             => /\ mainWindow'.undoStack # mainWindow.undoStack
                /\ \E i \in 1..Len(mainWindow'.undoStack) :
                      /\ mainWindow'.undoStack[i].gesture = pointer.gesture
                      /\ Names(mainWindow'.undoStack[i].act, p)]_vars

\* C22 (as stated): every step that changes objx or objy of an item makes
\* exactly one positionChanged call for the item, with the cell before and
\* the cell after the step; so for the origin changes of a resize step
PositionNotified ==
    [][\A id \in (DOMAIN objs \cap DOMAIN objs') \cup (DOMAIN items \cap DOMAIN items') :
          CellOf(objs', items', id) # CellOf(objs, items, id)
          => {c \in lastOp'.notified : c[1] = id} =
                {<<id, CellOf(objs, items, id)[1], CellOf(objs, items, id)[2],
                   CellOf(objs', items', id)[1], CellOf(objs', items', id)[2]>>}]_vars

(***************************************************************************)
(* Properties of the snapping policies of entrances and sprites.           *)
(***************************************************************************)
\* C23: while OverrideSnapping is set (a shift of the selection), the
\* position an entrance or a sprite ends at is the position asked for,
\* limited only by the level bounds, with and without Alt and whatever is
\* selected; objx and objy are that position in 1/16 of a cell
OverrideNoSnap ==
    [][lastOp'.op = "ShiftItems" =>
          \A id \in DOMAIN items :
             items[id].selected =>
                /\ items'[id].posx =
                      ClampTo(items[id].posx + 3 * lastOp'.offset[1], 24552)
                /\ items'[id].posy =
                      ClampTo(items[id].posy + 3 * lastOp'.offset[2], 12264)
                /\ items'[id].objx = Trunc(items'[id].posx, 3)
                /\ items'[id].objy = Trunc(items'[id].posy, 3)]_vars

\* a sprite shifted together with an object, Alt being down, stands off the
\* 8-unit grid, and an entrance was stopped at the left level bound
OverrideNoSnapWitness ==
    /\ lastOp.op = "ShiftItems"
    /\ mainWindow.CurrentSelection = {1, 3, 4}
    /\ pointer.alt
    /\ items[4].posx % 24 # 0
    /\ items[3].posx = 0

\* C24 (as stated): while a selection is dragged without Alt, a selected
\* entrance or sprite has objx and objy that differ from their values at the
\* press by a multiple of the grid step: 16 when an object is selected, 8
\* when only other items are.  The items looked at are away from the level
\* bounds and carry the drag offsets of their positions at the press, odd
\* coordinates included
GridSpacingKept ==
    (DragMoving /\ ~pointer.alt /\ lastOp.op = "mouseMoveEvent")
    => \A id \in DOMAIN pointer.start \cap DOMAIN items :
          \A step \in {IF ObjectsSelected(mainWindow) THEN 16 ELSE 8} :
             (/\ items[id].selected
              /\ ObjectsSelected(mainWindow) \/ Cardinality(mainWindow.CurrentSelection) > 1
              /\ items[id].posx > 0 /\ items[id].posy > 0
              /\ items[id].dragoffsetx = DragOffset(pointer.cells[id][1])
              /\ items[id].dragoffsety = DragOffset(pointer.cells[id][2]))
             => /\ (items[id].objx - pointer.cells[id][1]) % step = 0
                /\ (items[id].objy - pointer.cells[id][2]) % step = 0

(***************************************************************************)
(* Properties of the compositor under missing and malformed metadata.      *)
(***************************************************************************)
\* C25 (as claimed): construction, full rebuild and incremental resize never
\* end in an error, whatever metadata is missing or malformed (an empty
\* candidate list included), and the grid keeps `height` rows of `width`
\* entries.
NoErrorOnBadMetadata ==
    /\ ~ErrorRaised
    /\ \A id \in DOMAIN objs :
          /\ Len(objs[id].objdata) = objs[id].height
          /\ \A row \in Elems(objs[id].objdata) : Len(row) = objs[id].width

\* C26 (as claimed): isBottomRowSpecial is true exactly when the first tile
\* of the last row, after the lookup in the randomisation table, has bit 0
\* of its special mask set; the other columns have no influence and the
\* result is false without metadata.
BottomRowSpecialByFirstTile ==
    \A id \in DOMAIN objs :
        LET o == objs[id]
            tile == LowByte(o.objdata[Len(o.objdata)][1])
        IN isBottomRowSpecial(globals_, o)
             <=> /\ ~MetadataAbsent(globals_, o)
                 /\ TileInInfo(TilesetName(globals_, o), tile)
                 /\ Bit0(TilesetInfoTable[TilesetName(globals_, o)][tile].special)

\* C27 (as claimed): every cell assigned by random choice receives the value
\* (tileset << 8) | t for a member t of the candidate tiles of the cell's
\* looked-up tile, and the list chosen from is never empty.
ChoiceFromCandidates ==
    \A c \in choices :
        /\ ~c.raised
        /\ c.chosen \in c.candidates
        /\ \A id \in DOMAIN objs : c.stored = ComposeChoice(objs[id].tileset, c.chosen)

\* C28 (as claimed): after a full rebuild of an object with randomisation
\* metadata, the cell above every cell of a row y >= 1 that was processed as
\* the bottom half of a pair holds the paired top half, 0x10 below the
\* bottom half; a bottom half in row 0 writes nothing outside the grid and
\* raises no error.
PairedTopAbove ==
    lastOp.op \in {"init", "SetType", "ReloadTilesets"} =>
        /\ ~ErrorRaised
        /\ \A id \in DOMAIN objs :
              /\ Len(objs[id].objdata) = objs[id].height
              /\ \A c \in choices :
                    (c.bottom /\ c.y >= 1) =>
                        objs[id].objdata[c.y][c.x + 1]
                            = objs[id].objdata[c.y + 1][c.x + 1] - 16

\* C29 (as claimed): when the height of an object with randomisation
\* metadata grows, only the appended rows are randomised: every row that is
\* kept (all rows, or all but the last when the special bottom row is
\* dropped and rendered again) has the same content after the resize.
KeptRowsUnchanged ==
    [][\A id \in DOMAIN objs :
         (/\ lastOp'.op = "UpdateObj"
          /\ lastOp'.obj = id
          /\ ~MetadataAbsent(globals_, objs[id])
          /\ objs'[id].height > objs[id].height)
         => \A y \in 1..(IF lastOp'.special THEN objs[id].height - 1
                                            ELSE objs[id].height) :
               \A x \in 1..objs[id].width :
                   x <= objs'[id].width =>
                       objs'[id].objdata[y][x] = objs[id].objdata[y][x]]_vars

\* C30 (as claimed): a resize step that shrinks an object which a full
\* rebuild would randomise is a pure truncation: every surviving cell keeps
\* the value it had before the step.
ShrinkIsTruncation ==
    [][\A id \in DOMAIN objs :
         (/\ lastOp'.op = "UpdateObj"
          /\ lastOp'.obj = id
          /\ \E r \in updateObjCache(globals_, objs[id]) : r.log # {}
          /\ objs'[id].width <= objs[id].width
          /\ objs'[id].height <= objs[id].height
          /\ <<objs'[id].width, objs'[id].height>> # <<objs[id].width, objs[id].height>>)
         => \A y \in 1..objs'[id].height : \A x \in 1..objs'[id].width :
               objs'[id].objdata[y][x] = objs[id].objdata[y][x]]_vars

\* C31 (as claimed): when the width of an object with randomisation
\* metadata grows, only the appended columns are randomised: every row
\* gains exactly the new cells and keeps the values of its old columns.
KeptColumnsUnchanged ==
    [][\A id \in DOMAIN objs :
         (/\ lastOp'.op = "UpdateObj"
          /\ lastOp'.obj = id
          /\ ~MetadataAbsent(globals_, objs[id])
          /\ objs'[id].height = objs[id].height
          /\ objs'[id].width > objs[id].width)
         => \A y \in 1..objs[id].height :
               /\ Len(objs'[id].objdata[y]) = Len(objs[id].objdata[y])
                                               + objs'[id].width - objs[id].width
               /\ \A x \in 1..objs[id].width :
                     objs'[id].objdata[y][x] = objs[id].objdata[y][x]]_vars

(***************************************************************************)
(* Properties of the participant snapshot and of the origins.              *)
(***************************************************************************)
\* C32 (as claimed): after every pointer move of a resize gesture on an
\* anchor that moves the origin, the snapshotted size of every participant
\* on an origin-moving axis (the width for the left anchors, the height for
\* the top anchors) is its committed size on that axis.
SnapshotIsCommitted ==
    \A a \in {"TL", "TR", "BL", "MT", "ML"} :
        (Resizing(a) /\ lastOp.op = "mouseMoveEvent") =>
            \A p \in DOMAIN Driver.objsDragging :
                /\ a \in {"TL", "BL", "ML"} => Driver.objsDragging[p][1] = objs[p].width
                /\ a \in {"TL", "TR", "MT"} => Driver.objsDragging[p][2] = objs[p].height

\* C33: after any sequence of moves and resize steps the origin of every
\* object is inside the level, 0 <= objx <= 1024 and 0 <= objy <= 512; no
\* resize step leaves a negative origin.
OriginInLevel ==
    \A id \in DOMAIN objs :
        /\ 0 <= objs[id].objx /\ objs[id].objx <= 1024
        /\ 0 <= objs[id].objy /\ objs[id].objy <= 512

\* a resize step on the top-left grabber whose branch moved the origin past
\* the right bound: the origin is at the bound
OriginInLevelWitness ==
    /\ Resizing("TL")
    /\ lastOp.op = "mouseMoveEvent"
    /\ Driver.objx = 1024
    /\ Driver.width = 1

\* C34 (as claimed): for every participant of a resize step for which
\* UpdateObj is called, the driving object and the other selected objects
\* alike, the rectangle UpdateObj asks the scene to draw again contains the
\* participant's bounding rectangle before the step and the one after it.
RedrawCoversStep ==
    [][\A a \in Anchors : ResizeStepOn(a) =>
          \A p \in DOMAIN Driver.objsDragging :
             ResizeOne(a, objs[p], Driver.objsDragging[p], StepDX, StepDY).call =>
                \A r \in {QRectF(objs[p].posx, objs[p].posy,
                                 24 * objs[p].width, 24 * objs[p].height),
                          QRectF(objs'[p].posx, objs'[p].posy,
                                 24 * objs'[p].width, 24 * objs'[p].height)} :
                   /\ objs'[p].updaterect.x <= r.x
                   /\ objs'[p].updaterect.y <= r.y
                   /\ r.x + r.w <= objs'[p].updaterect.x + objs'[p].updaterect.w
                   /\ r.y + r.h <= objs'[p].updaterect.y + objs'[p].updaterect.h]_vars

\* ---- Properties of the grabber hit regions ----

\* C35: no pointer position lies in more than one of the eight anchor
\* hit regions, so a pointer-down sets at most one of the eight grabbed flags
\* of the object it lands on
OneGrabbedFlag ==
    \A id \in DOMAIN objs : Cardinality(objs[id].grabbed) <= 1

\* ---- Properties of the suppression flags ----

\* C36: every operation that sets OverrideSnapping or SelectionUpdateFlag
\* clears it before it returns: after placeEncodedObjects or ShiftItems has
\* returned, on every path, both flags are false
FlagsCleared ==
    lastOp.op \in {"placeEncodedObjects", "ShiftItems"}
        => ~globals_.OverrideSnapping /\ ~mainWindow.SelectionUpdateFlag

\* ---- Properties of the z order of a layer ----

\* C37: the objects of each layer have pairwise distinct z values and z
\* increases strictly along the layer's sequence, so that the next object
\* created (z of the last element + 1) is on top of its layer
ZIncreasesAlongLayer ==
    \A l \in 1..3 :
        \A i, j \in 1..Len(Area.layers[l]) :
            i < j => objs[Area.layers[l][i]].z < objs[Area.layers[l][j]].z

\* ---- Properties of the participant snapshot of the advancing anchors ----

\* C38: in a gesture driven by the bottom-right, bottom or right anchor,
\* each participant's committed size on an affected axis is max(1, size at
\* pointer-down + net pointer-cell displacement); in particular it is the
\* pointer-down size whenever the pointer is back in the cell of the press
SizeFollowsPointerCell ==
    \A a \in {"BR", "MB", "MR"} :
        Resizing(a) =>
            \A p \in DOMAIN pointer.sizes :
                /\ a \in {"BR", "MR"} =>
                      objs[p].width =
                          IF pointer.sizes[p][1] + PointerCellDX < 1 THEN 1
                          ELSE pointer.sizes[p][1] + PointerCellDX
                /\ a \in {"BR", "MB"} =>
                      objs[p].height =
                          IF pointer.sizes[p][2] + PointerCellDY < 1 THEN 1
                          ELSE pointer.sizes[p][2] + PointerCellDY

\* ---- Properties of the values written by randomise ----

\* C39: every value randomise writes into the grid (the chosen value and,
\* for a bottom half, the paired top half chosenValue - 0x10 above it) is a
\* non-negative 16-bit value whose bits above the low byte are the object's
\* tileset, for every candidate tile id 0..255
WrittenValueInTileset ==
    lastOp.op = "randomise" =>
        \A y \in {0, 1} :
            (y = 1 \/ lastOp.special) =>
                /\ objs[1].objdata[y + 1][1] >= 0
                /\ objs[1].objdata[y + 1][1] < 65536
                /\ objs[1].objdata[y + 1][1] \div 256 = objs[1].tileset

====
